---- MODULE Spec2Model ----
(***************************************************************************)
(* FAX-BANK ledger engine: the persisted data store (DataStore), the       *)
(* economy catalog (EconomyManager) and the bank / account / transaction   *)
(* operations (BankManager).                                               *)
(*                                                                         *)
(* Every operation is an async function.  It runs synchronously up to its  *)
(* next `await updateDataStore(...)`; updateDataStore reads the store that *)
(* the host currently holds, applies the updater and hands the WHOLE       *)
(* updated document to the host's settings.set.  The write lands later     *)
(* (or is rejected); until then getDataStore still returns the old         *)
(* document.  One action of the model is one such synchronous segment.     *)
(*                                                                         *)
(* Numbers.  A JavaScript number is modelled by the exact rational         *)
(* <<n, d>> (d > 0, lowest terms).  The ledger specifications draw         *)
(* amounts from small integers and base values / rates from powers of two  *)
(* and small integers, a domain on which IEEE-754 double arithmetic is     *)
(* exact.  Rounding is modelled separately, bit for bit, by the binary64   *)
(* operators, in SpecConv (the conversion of a cross-currency transfer)    *)
(* and in SpecTrip (a deposit followed by a withdrawal).                   *)
(*                                                                         *)
(* Beside that engine stand the older array-based engine of               *)
(* EconomyManager (one settings key holding four arrays; SpecLegacy), the  *)
(* actor wallets of SystemCurrency (SpecActors), the GM-side transfer of   *)
(* SocketManager (SpecSocket, on the same wallets) and the debounce and    *)
(* throttle helpers (SpecDebounce, SpecThrottle, on one timer variable).   *)
(* SpecQuery follows the transaction queries of BankManager.               *)
(*                                                                         *)
(* Left out of the records, because no operation reads them: names,        *)
(* descriptions, owner ids, colours, interest rates, fees and timestamps   *)
(* (SpecQuery keeps createdAt, which the queries sort by).                 *)
(***************************************************************************)
EXTENDS Integers, Sequences, FiniteSets, TLC

\* Concurrent calls in flight at once (async calls started by UI handlers).
MaxCalls == 2
\* Largest amount passed to deposit / withdraw / transfer.
MaxAmount == 2
\* Cap on the number of calls that get as far as a store write.
MaxOps == 2
\* Cap on the number of catalog changes (accounts created or closed,
\* currencies created, exchange rates set) made on top of the initial world.
MaxAdmin == 1
\* Largest amount and largest base value of the conversions of SpecConv.
MaxConvAmount == 8
MaxBaseValue == 10
\* Largest number of coins, and of tenths of a coin, of SpecTrip.
MaxTenths == 4
\* The latest reading of Date.now().
MaxNow == 4
\* The number of calls made to the array-based engine.
MaxLegacyCalls == 2
\* The most coins an actor holds at first and the largest amount transferred
\* between actors; the number of transfers made.
MaxCoins == 2
MaxTransfers == 2
\* The number of GM clients connected to the socket.
MaxGMs == 2
\* The number of transactions recorded before the queries are made.
MaxRecorded == 3
\* debounce: the longest delay, the last instant of the clock and the number
\* of calls and invocations followed.
MaxDelay == 2
MaxTime == 5
MaxEvents == 6

\* An id: generateId() returns a fresh random string.  Ids are modelled as
\* <<kind, n>>, n counting the ids generated for that kind of record, which
\* keeps them fresh and distinct.
Id(kind, n) == <<kind, n>>

\* `undefined` for an optional id, and an id that names no record.
None == <<"none", 0>>

Procs == 1..MaxCalls

----------------------------------------------------------------------------
(* Exact rational arithmetic for JavaScript numbers.                        *)

Abs(n) == IF n < 0 THEN -n ELSE n

RECURSIVE GCD(_, _)
GCD(a, b) == IF b = 0 THEN a ELSE GCD(b, a % b)

\* The rational n/d in lowest terms with a positive denominator (d # 0).
Norm(n, d) ==
    LET g == GCD(Abs(n), Abs(d))
        s == IF d < 0 THEN -1 ELSE 1
    IN  <<(s * n) \div g, (s * d) \div g>>

R(n) == <<n, 1>>
RAdd(x, y) == Norm(x[1] * y[2] + y[1] * x[2], x[2] * y[2])
RNeg(x) == <<-x[1], x[2]>>
RSub(x, y) == RAdd(x, RNeg(y))
RMul(x, y) == Norm(x[1] * y[1], x[2] * y[2])
RDiv(x, y) == Norm(x[1] * y[2], x[2] * y[1])
RLess(x, y) == x[1] * y[2] < y[1] * x[2]
RLeq(x, y) == x[1] * y[2] <= y[1] * x[2]

----------------------------------------------------------------------------
(* IEEE-754 binary64 arithmetic for conversions and balances.              *)
(* A natural number of any size is the sequence of its bits, lowest first,  *)
(* with no zero at the top; a positive double is [m, e], standing for       *)
(* m * 2^e with m a natural of exactly 53 bits.                             *)

Min(S) == CHOOSE x \in S : \A y \in S : x <= y
Max(S) == CHOOSE x \in S : \A y \in S : y <= x

\* The bits of n, for 0 <= n < 2^30
BNat(n) ==
    LET len == CHOOSE l \in 0..30 : n < 2^l /\ (l = 0 \/ n >= 2^(l - 1))
    IN  [i \in 1..len |-> (n \div 2^(i - 1)) % 2]

\* x without the zeros at its top
BTrim(x) ==
    LET ones == {i \in 1..Len(x) : x[i] = 1}
    IN  IF ones = {} THEN <<>> ELSE SubSeq(x, 1, Max(ones))

\* The low Len(x) bits of x * k + carry and the carry out of them, for a
\* small k; the lower half of x is worked before the upper half.
RECURSIVE BMulPart(_, _, _)
BMulPart(x, k, carry) ==
    IF x = <<>> THEN << <<>>, carry >>
    ELSE IF Len(x) = 1
    THEN LET t == x[1] * k + carry IN << <<t % 2>>, t \div 2 >>
    ELSE LET h == Len(x) \div 2
             lo == BMulPart(SubSeq(x, 1, h), k, carry)
         IN  IF lo[2] >= 0
             THEN LET hi == BMulPart(SubSeq(x, h + 1, Len(x)), k, lo[2])
                  IN  << lo[1] \o hi[1], hi[2] >>
             ELSE lo

\* x * k + carry, for a small k
BMul(x, k, carry) ==
    LET r == BMulPart(x, k, carry) IN BTrim(r[1] \o BNat(r[2]))

\* x + 1
BInc(x) ==
    LET zeros == {i \in 1..Len(x) : x[i] = 0}
    IN  IF zeros = {} THEN [i \in 1..(Len(x) + 1) |-> IF i > Len(x) THEN 1 ELSE 0]
        ELSE [i \in 1..Len(x) |-> IF i < Min(zeros) THEN 0
                                  ELSE IF i = Min(zeros) THEN 1 ELSE x[i]]

\* x * 2^n
BShl(x, n) == IF x = <<>> THEN <<>> ELSE [i \in 1..n |-> 0] \o x

\* -1, 0 or 1 as x is below, equal to or above y (neither with top zeros)
BCmp(x, y) ==
    IF Len(x) # Len(y) THEN (IF Len(x) < Len(y) THEN -1 ELSE 1)
    ELSE LET differ == {i \in 1..Len(x) : x[i] # y[i]}
         IN  IF differ = {} THEN 0
             ELSE IF x[Max(differ)] < y[Max(differ)] THEN -1 ELSE 1

\* x - y, for x >= y: bit i borrows when the bits of x below it make a
\* smaller number than the bits of y below it.
BSub(x, y) ==
    LET yb(i) == IF i <= Len(y) THEN y[i] ELSE 0
        borrow(i) == LET differ == {j \in 1..(i - 1) : x[j] # yb(j)}
                     IN  IF differ # {} /\ x[Max(differ)] < yb(Max(differ)) THEN 1 ELSE 0
    IN  BTrim([i \in 1..Len(x) |-> (x[i] + 2 - yb(i) - borrow(i)) % 2])

\* |x - y|
BDist(x, y) == IF BCmp(x, y) >= 0 THEN BSub(x, y) ELSE BSub(y, x)

\* The double nearest to x * 2^e (ties to even), x a natural of 53 bits or
\* more; sticky tells that the exact value lies above x * 2^e by less than
\* one unit of x.
Round64(x, e, sticky) ==
    LET d == Len(x) - 53
        kept == SubSeq(x, d + 1, Len(x))
        half == d > 0 /\ x[d] = 1
        rest == sticky \/ \E i \in 1..(d - 1) : x[i] = 1
        up == half /\ (rest \/ kept[1] = 1)
        m == IF up THEN BInc(kept) ELSE kept
    IN  IF Len(m) > 53 THEN [m |-> Tail(m), e |-> e + d + 1]
        ELSE [m |-> m, e |-> e + d]

\* The double that holds the integer n > 0.
FromInt(n) == Round64(BShl(BNat(n), 53), -53, FALSE)

\* 2^j modulo q, for j <= 90 and a small q
Pow2Mod(j, q) ==
    IF j <= 30 THEN (2^j) % q
    ELSE IF j <= 60 THEN (((2^30) % q) * ((2^(j - 30)) % q)) % q
    ELSE (((((2^30) % q) * ((2^30) % q)) % q) * ((2^(j - 60)) % q)) % q

\* The remainder of the long division of p by q after i bits of the
\* fraction: p * 2^i modulo q.
Remainder(p, q, i) == ((p % q) * Pow2Mod(i, q)) % q

\* p / q for doubles holding the integers p > 0 and q > 0: the quotient by
\* long division to k > 54 bits of the fraction (bit i of the fraction is 1
\* when twice the remainder before it reaches q), rounded once.
Div64(p, q) ==
    LET k == 54 + Len(BNat(q))
        fraction == [j \in 1..k |-> IF 2 * Remainder(p, q, k - j) >= q THEN 1 ELSE 0]
    IN  Round64(BTrim(fraction \o BNat(p \div q)), -k, Remainder(p, q, k) # 0)

\* a * x for a double holding the integer a > 0 and a double x: the exact
\* product, rounded once.
Mul64(a, x) == Round64(BMul(x.m, a, 0), x.e, FALSE)

\* The double 0, also the value of a local not yet assigned.
Zero64 == [m |-> <<>>, e |-> 0]

\* x + y for naturals: bit i takes a carry when the bits of x below it and
\* the bits of y below it add up to a full 2^(i-1), which the highest
\* position below i where the two agree decides.
BAdd(x, y) ==
    LET n == Max({Len(x), Len(y)}) + 1
        xb(i) == IF i <= Len(x) THEN x[i] ELSE 0
        yb(i) == IF i <= Len(y) THEN y[i] ELSE 0
        carry(i) == LET agree == {j \in 1..(i - 1) : xb(j) = yb(j)}
                    IN  IF agree = {} THEN 0 ELSE xb(Max(agree))
    IN  BTrim([i \in 1..n |-> (xb(i) + yb(i) + carry(i)) % 2])

\* The mantissa of the double x as a multiple of 2^e, for e <= x.e
Aligned(x, e) == BShl(x.m, x.e - e)

\* x + y for doubles x >= 0 and y >= 0: the exact sum, rounded once.
Add64(x, y) ==
    IF x = Zero64 THEN y
    ELSE IF y = Zero64 THEN x
    ELSE LET e == Min({x.e, y.e})
         IN  Round64(BAdd(Aligned(x, e), Aligned(y, e)), e, FALSE)

\* x < y for doubles x >= 0 and y >= 0
Less64(x, y) ==
    IF y = Zero64 THEN FALSE
    ELSE IF x = Zero64 THEN TRUE
    ELSE LET e == Min({x.e, y.e})
         IN  BCmp(Aligned(x, e), Aligned(y, e)) < 0

\* x - y for doubles x >= y >= 0: the exact difference, rounded once.
Sub64(x, y) ==
    IF y = Zero64 THEN x
    ELSE LET e == Min({x.e, y.e})
             diff == BSub(Aligned(x, e), Aligned(y, e))
         IN  IF diff = <<>> THEN Zero64
             ELSE Round64(BShl(diff, 53), e - 53, FALSE)

----------------------------------------------------------------------------
(* The persisted document (BankDataStore) and the state of the calls.       *)

VARIABLES
    store,    \* the document the host holds: what getDataStore() returns
    calls,    \* per call slot: the operation in flight, its locals, its result
    nextId,   \* generateId(): per kind of record, the number of the next id
    ops,      \* the number of calls that have got as far as a store write
    conv,     \* the conversion of a cross-currency transfer, in binary64
    trip,     \* one account's balance and records, in binary64
    legacy,   \* the array-based engine: its settings key, defaultData, its call
    actors,   \* SystemCurrency: the wallets of two actors and the transfer made
    timer     \* debounce: the clock, the pending timeout and the log of events

vars == <<store, calls, nextId, ops, conv, trip, legacy, actors, timer>>

\* getDefaultStore
DefaultStore ==
    [ economies |-> <<>>, currencies |-> <<>>, exchangeRates |-> <<>>,
      banks |-> <<>>, accounts |-> <<>>, transactions |-> <<>> ]

\* A call slot with no call in it.  `i` counts the preset currencies a call of
\* addDnD5eCurrencies or addPathfinderCurrencies has got to.
Idle ==
    [ op |-> "none", pc |-> "idle", res |-> "none", a |-> None, b |-> None,
      amt |-> R(0), nb1 |-> R(0), nb2 |-> R(0), tamt |-> R(0),
      cur1 |-> None, cur2 |-> None, tx1 |-> None, i |-> 0,
      pending |-> DefaultStore, pre |-> DefaultStore ]

Has(f, id) == id \in DOMAIN f

\* { ...f, [id]: rec }
Put(f, id, rec) == [k \in (DOMAIN f) \cup {id} |-> IF k = id THEN rec ELSE f[k]]

\* `null`, the answer of getExchangeRate when no rate can be derived.
Null == <<0, 0>>

\* A Transaction record as recordTransaction builds it.
Tx(id, accountId, type, amount, currencyId, balanceAfter, relAcc, relTx) ==
    [ id |-> id, accountId |-> accountId, type |-> type, amount |-> amount,
      currencyId |-> currencyId, balanceAfter |-> balanceAfter,
      relatedAccountId |-> relAcc, relatedTransactionId |-> relTx ]

\* The world the ledger specifications start in, as left by
\*   createEconomy x2; createCurrency(eco 1, baseValue 1) (Gold, cur 1),
\*   createCurrency(eco 1, baseValue 2) (Platinum, cur 2),
\*   createCurrency(eco 2, baseValue 1) (Crown, cur 3);
\*   createBank(eco 1), createBank(eco 2);
\*   createAccount(bank 1, cur 1) twice, createAccount(bank 1, cur 2),
\*   createAccount(bank 2, cur 3); deposit(acc 1, 2).
NewAccount(bankId, currencyId) ==
    [bankId |-> bankId, currencyId |-> currencyId, balance |-> R(0), isActive |-> TRUE]

WorldStore ==
    [ economies |-> (Id("eco", 1) :> [baseCurrencyId |-> Id("cur", 1)])
                 @@ (Id("eco", 2) :> [baseCurrencyId |-> Id("cur", 3)]),
      currencies |-> (Id("cur", 1) :> [economyId |-> Id("eco", 1), baseValue |-> R(1)])
                  @@ (Id("cur", 2) :> [economyId |-> Id("eco", 1), baseValue |-> R(2)])
                  @@ (Id("cur", 3) :> [economyId |-> Id("eco", 2), baseValue |-> R(1)]),
      exchangeRates |-> <<>>,
      banks |-> (Id("bank", 1) :> [economyId |-> Id("eco", 1)])
             @@ (Id("bank", 2) :> [economyId |-> Id("eco", 2)]),
      accounts |-> (Id("acc", 1) :> [NewAccount(Id("bank", 1), Id("cur", 1))
                                        EXCEPT !.balance = R(2)])
                @@ (Id("acc", 2) :> NewAccount(Id("bank", 1), Id("cur", 1)))
                @@ (Id("acc", 3) :> NewAccount(Id("bank", 1), Id("cur", 2)))
                @@ (Id("acc", 4) :> NewAccount(Id("bank", 2), Id("cur", 3))),
      transactions |-> << Tx(Id("tx", 1), Id("acc", 1), "deposit", R(2), Id("cur", 1),
                             R(2), None, None) >> ]

\* No conversion under way.
NoConversion ==
    [ pc |-> "none", amount |-> 0, fromBase |-> 0, toBase |-> 0,
      rate |-> Zero64, transferAmount |-> Zero64 ]

\* No account followed in binary64.
NoTrip ==
    [ pc |-> "none", original |-> Zero64, amount |-> Zero64, balance |-> Zero64,
      transactions |-> <<>>, res |-> "none" ]

\* The four arrays of EconomyData, empty: the literal that defaultData is
\* initialised with.
EmptyData == [economies |-> <<>>, banks |-> <<>>, accounts |-> <<>>, transactions |-> <<>>]

\* The array-based engine not in use.  `ret` is what a call returns: its kind
\* ("economy", "account", "true", "null") and the entity, if one.
NoLegacy ==
    [ pc |-> "none", settings |-> "absent", persisted |-> FALSE, stored |-> EmptyData,
      defaultData |-> EmptyData, now |-> 0, n |-> 0, op |-> "none", a |-> None,
      b |-> None, data |-> EmptyData, pre |-> EmptyData, loaded |-> EmptyData,
      ret |-> [kind |-> "none", value |-> None], saved |-> "none" ]

\* No actors followed.  `currency` is each actor's system.currency amount of
\* the one kind of coin followed.  For the socket layer, `gms` holds for each
\* connected GM client how far its handleTransferRequest has got, and
\* `answers` the TRANSFER_COMPLETE messages emitted.
NoActors ==
    [ pc |-> "none", currency |-> [a \in {} |-> 0], original |-> [a \in {} |-> 0],
      from |-> "none", to |-> "none", amount |-> 0, newAmount |-> 0, res |-> "none",
      rollback |-> "none", n |-> 0, gms |-> <<>>, answers |-> {} ]

\* No debounced function made.  `timeouts` are the host's scheduled timeouts,
\* `timeoutId` is the closure's variable (0 before the first call) and `log`
\* the calls of the debounced function and the invocations of fn, in order.
\* For throttle, `delay` is the limit and `inThrottle` the closure's flag.
NoTimer ==
    [ pc |-> "none", delay |-> 0, now |-> 0, timeouts |-> {}, timeoutId |-> 0,
      inThrottle |-> FALSE, log |-> <<>> ]

Init ==
    /\ store = WorldStore
    /\ calls = [p \in Procs |-> Idle]
    /\ nextId = [eco |-> 3, cur |-> 4, bank |-> 3, acc |-> 5, tx |-> 2]
    /\ ops = 0
    /\ legacy = NoLegacy /\ actors = NoActors /\ timer = NoTimer
    /\ conv = NoConversion
    /\ trip = NoTrip

\* generateId() for a record of kind k, and the counter after it.
GenerateId(k) == Id(k, nextId[k])
Generated(k) == [nextId EXCEPT ![k] = @ + 1]

----------------------------------------------------------------------------
(* EconomyManager: exchange rates.                                          *)

\* A rate lookup that derives a rate from the base values whatever the
\* economies of the two currencies.
GetExchangeRateAnyEconomy(s, from, to) ==
    IF ~Has(s.currencies, from) \/ ~Has(s.currencies, to) THEN Null
    ELSE IF from = to THEN R(1)
    ELSE LET hits == { i \in DOMAIN s.exchangeRates :
                         /\ s.exchangeRates[i].fromCurrencyId = from
                         /\ s.exchangeRates[i].toCurrencyId = to }
         IN  IF hits # {} THEN s.exchangeRates[Min(hits)].rate
             ELSE RDiv(s.currencies[from].baseValue, s.currencies[to].baseValue)

\* A rate lookup that derives the rate of two currencies of one economy from
\* their base values before it looks for a stored override.
GetExchangeRateBaseValuesFirst(s, from, to) ==
    IF ~Has(s.currencies, from) \/ ~Has(s.currencies, to) THEN Null
    ELSE IF from = to THEN R(1)
    ELSE IF s.currencies[from].economyId = s.currencies[to].economyId
    THEN RDiv(s.currencies[from].baseValue, s.currencies[to].baseValue)
    ELSE LET hits == { i \in DOMAIN s.exchangeRates :
                         /\ s.exchangeRates[i].fromCurrencyId = from
                         /\ s.exchangeRates[i].toCurrencyId = to }
         IN  IF hits # {} THEN s.exchangeRates[Min(hits)].rate ELSE Null

\* getExchangeRate(fromCurrencyId, toCurrencyId) on the store s.
GetExchangeRate(s, from, to) ==
    IF ~Has(s.currencies, from) \/ ~Has(s.currencies, to) THEN Null
    ELSE IF from = to THEN R(1)
    ELSE LET hits == { i \in DOMAIN s.exchangeRates :
                         /\ s.exchangeRates[i].fromCurrencyId = from
                         /\ s.exchangeRates[i].toCurrencyId = to }
         IN  IF hits # {} THEN s.exchangeRates[Min(hits)].rate
             ELSE IF s.currencies[from].economyId = s.currencies[to].economyId
                  THEN RDiv(s.currencies[from].baseValue, s.currencies[to].baseValue)
                  ELSE Null

----------------------------------------------------------------------------
(* Call bookkeeping.                                                        *)

\* A slot is free when no call is in it.
Free(p) == calls[p].pc = "idle"

InFlight(p) == calls[p].pc \in {"w1", "w2", "w3"}

\* A call that has just been entered: its arguments and the store it found.
Enter(op, a, b, amt) ==
    [Idle EXCEPT !.op = op, !.a = a, !.b = b, !.amt = amt, !.pre = store]

\* The call in slot p returns res.
Return(p, c, res) ==
    /\ calls' = [calls EXCEPT ![p] = [c EXCEPT !.pc = "done", !.res = res]]
    /\ UNCHANGED <<ops, conv, trip, legacy, actors, timer>>

\* updateDataStore(updater): the updated document is handed to settings.set
\* and the call waits for the write at stage pc.
Await(p, c, pc, updated) ==
    /\ calls' = [calls EXCEPT ![p] = [c EXCEPT !.pc = pc, !.pending = updated]]
    /\ ops' = IF pc = "w1" THEN ops + 1 ELSE ops
    /\ UNCHANGED <<conv, trip, legacy, actors, timer>>

\* The store after recordTransaction's updater: the record is appended.
WithTransaction(s, tx) == [s EXCEPT !.transactions = Append(@, tx)]

\* The store after an updater that replaces one account.
WithAccount(s, id, acct) == [s EXCEPT !.accounts = Put(@, id, acct)]

\* A deposit that loses the amount: the balance is left as it was.
CreditedNothing(balance, amount) == balance

\* account.balance + amount
Credited(balance, amount) == RAdd(balance, amount)

\* account.balance - amount
Debited(balance, amount) == RSub(balance, amount)

\* A funds check that also turns away an amount equal to the balance.
InsufficientOrEqual(balance, amount) == RLeq(balance, amount)

\* account.balance < amount
Insufficient(balance, amount) == RLess(balance, amount)

\* No call is entered once MaxOps calls have written to the store.
Budget == ops < MaxOps

AccountArgs == (DOMAIN store.accounts) \cup {None}
\* Amounts a caller passes: negative, zero and positive ones.
AmountArgs == (-1)..MaxAmount

\* The caller of the call in slot p has received its result: the slot is free
\* for the caller's next call.
Returned(p) ==
    /\ calls[p].pc = "done"
    /\ calls' = [calls EXCEPT ![p] = Idle]
    /\ UNCHANGED <<store, nextId, ops, conv, trip, legacy, actors, timer>>

----------------------------------------------------------------------------
(* The host's settings.set.                                                *)

\* The write the call in slot p waits for fails (settings.set rejects, for
\* instance for a user who may not write world settings): updateDataStore
\* throws, no operation catches it, and the call's promise rejects.
SaveFails(p) ==
    /\ InFlight(p)
    /\ Return(p, calls[p], "threw")
    /\ UNCHANGED <<store, nextId>>

----------------------------------------------------------------------------
(* BankManager: deposit.                                                    *)

\* deposit(accountId, amount) up to its first await.
Deposit(p, id, amount) ==
    LET c == Enter("deposit", id, None, R(amount)) IN
    /\ Free(p) /\ Budget
    /\ UNCHANGED <<store, nextId>>
    /\ IF amount <= 0 THEN Return(p, c, "Amount must be positive")
       ELSE IF ~Has(store.accounts, id) THEN Return(p, c, "Account not found")
       ELSE IF ~store.accounts[id].isActive THEN Return(p, c, "Account is inactive")
       ELSE LET account == store.accounts[id]
                newBalance == Credited(account.balance, R(amount))
            IN  Await(p, [c EXCEPT !.nb1 = newBalance, !.cur1 = account.currencyId], "w1",
                      WithAccount(store, id, [account EXCEPT !.balance = newBalance]))

\* The balance write has landed; recordTransaction builds the record and
\* hands the store with the record appended to settings.set.
DepositBalanceSaved(p) ==
    LET c == calls[p]
        s == c.pending
        tx == Tx(GenerateId("tx"), c.a, "deposit", c.amt, c.cur1, c.nb1, None, None)
    IN  /\ c.op = "deposit" /\ c.pc = "w1"
        /\ store' = s
        /\ nextId' = Generated("tx")
        /\ Await(p, c, "w2", WithTransaction(s, tx))

\* The record write has landed; deposit returns success.
DepositRecorded(p) ==
    LET c == calls[p] IN
    /\ c.op = "deposit" /\ c.pc = "w2"
    /\ store' = c.pending
    /\ Return(p, c, "ok")
    /\ UNCHANGED nextId

----------------------------------------------------------------------------
(* BankManager: withdraw.                                                   *)

\* withdraw(accountId, amount) up to its first await.
Withdraw(p, id, amount) ==
    LET c == Enter("withdraw", id, None, R(amount)) IN
    /\ Free(p) /\ Budget
    /\ UNCHANGED <<store, nextId>>
    /\ IF amount <= 0 THEN Return(p, c, "Amount must be positive")
       ELSE IF ~Has(store.accounts, id) THEN Return(p, c, "Account not found")
       ELSE IF ~store.accounts[id].isActive THEN Return(p, c, "Account is inactive")
       ELSE IF Insufficient(store.accounts[id].balance, R(amount))
            THEN Return(p, c, "Insufficient funds")
       ELSE LET account == store.accounts[id]
                newBalance == Debited(account.balance, R(amount))
            IN  Await(p, [c EXCEPT !.nb1 = newBalance, !.cur1 = account.currencyId], "w1",
                      WithAccount(store, id, [account EXCEPT !.balance = newBalance]))

\* The balance write has landed; the withdrawal record (amount negated) is
\* handed to settings.set.
WithdrawBalanceSaved(p) ==
    LET c == calls[p]
        s == c.pending
        tx == Tx(GenerateId("tx"), c.a, "withdrawal", RNeg(c.amt), c.cur1, c.nb1, None, None)
    IN  /\ c.op = "withdraw" /\ c.pc = "w1"
        /\ store' = s
        /\ nextId' = Generated("tx")
        /\ Await(p, c, "w2", WithTransaction(s, tx))

\* The record write has landed; withdraw returns success.
WithdrawRecorded(p) ==
    LET c == calls[p] IN
    /\ c.op = "withdraw" /\ c.pc = "w2"
    /\ store' = c.pending
    /\ Return(p, c, "ok")
    /\ UNCHANGED nextId

----------------------------------------------------------------------------
(* BankManager: transfer.                                                   *)

\* transferAmount: the amount credited, amount * rate.
TransferAmount(amount, rate) == RMul(amount, rate)

\* Early returns that leave out the check of the source balance.
TransferErrorNoFundsCheck(s, from, to, amount) ==
    IF amount <= 0 THEN "Amount must be positive"
    ELSE IF ~Has(s.accounts, from) THEN "Source account not found"
    ELSE IF ~Has(s.accounts, to) THEN "Destination account not found"
    ELSE IF ~s.accounts[from].isActive \/ ~s.accounts[to].isActive
         THEN "One or both accounts are inactive"
    ELSE "none"

\* Early returns that leave out the check of the two active flags.
TransferErrorNoActiveCheck(s, from, to, amount) ==
    IF amount <= 0 THEN "Amount must be positive"
    ELSE IF ~Has(s.accounts, from) THEN "Source account not found"
    ELSE IF ~Has(s.accounts, to) THEN "Destination account not found"
    ELSE IF Insufficient(s.accounts[from].balance, R(amount)) THEN "Insufficient funds"
    ELSE "none"

\* The early returns of transfer, in the order the code makes them: the error
\* it returns on the store s, or "none" when every check passes.
TransferError(s, from, to, amount) ==
    IF amount <= 0 THEN "Amount must be positive"
    ELSE IF ~Has(s.accounts, from) THEN "Source account not found"
    ELSE IF ~Has(s.accounts, to) THEN "Destination account not found"
    ELSE IF ~s.accounts[from].isActive \/ ~s.accounts[to].isActive
         THEN "One or both accounts are inactive"
    ELSE IF Insufficient(s.accounts[from].balance, R(amount)) THEN "Insufficient funds"
    ELSE "none"

\* transfer(fromAccountId, toAccountId, amount) up to its first await.
Transfer(p, from, to, amount) ==
    LET c == Enter("transfer", from, to, R(amount)) IN
    /\ Free(p) /\ Budget
    /\ UNCHANGED <<store, nextId>>
    /\ IF TransferError(store, from, to, amount) # "none"
       THEN Return(p, c, TransferError(store, from, to, amount))
       ELSE LET fromAccount == store.accounts[from]
                toAccount == store.accounts[to]
                convert == fromAccount.currencyId # toAccount.currencyId
                rate == IF convert
                        THEN GetExchangeRate(store, fromAccount.currencyId, toAccount.currencyId)
                        ELSE R(1)
            IN  IF convert /\ rate = Null
                THEN Return(p, c, "Cannot convert between these currencies")
                ELSE LET transferAmount == IF convert THEN TransferAmount(R(amount), rate)
                                           ELSE R(amount)
                         newFromBalance == Debited(fromAccount.balance, R(amount))
                         newToBalance == Credited(toAccount.balance, transferAmount)
                         \* { ...s.accounts, [from]: ..., [to]: ... }: the later key wins
                         updated == WithAccount(
                                      WithAccount(store, from,
                                        [fromAccount EXCEPT !.balance = newFromBalance]),
                                      to, [toAccount EXCEPT !.balance = newToBalance])
                     IN  Await(p, [c EXCEPT !.nb1 = newFromBalance, !.nb2 = newToBalance,
                                            !.tamt = transferAmount,
                                            !.cur1 = fromAccount.currencyId,
                                            !.cur2 = toAccount.currencyId],
                               "w1", updated)

\* Both balances have landed; the debit record is handed to settings.set.
TransferBalancesSaved(p) ==
    LET c == calls[p]
        s == c.pending
        tx == Tx(GenerateId("tx"), c.a, "transfer", RNeg(c.amt), c.cur1, c.nb1, c.b, None)
    IN  /\ c.op = "transfer" /\ c.pc = "w1"
        /\ store' = s
        /\ nextId' = Generated("tx")
        /\ Await(p, [c EXCEPT !.tx1 = GenerateId("tx")], "w2", WithTransaction(s, tx))

\* The debit record has landed; the credit record, linked to it, is handed
\* to settings.set.
TransferDebitRecorded(p) ==
    LET c == calls[p]
        s == c.pending
        tx == Tx(GenerateId("tx"), c.b, "transfer", c.tamt, c.cur2, c.nb2, c.a, c.tx1)
    IN  /\ c.op = "transfer" /\ c.pc = "w2"
        /\ store' = s
        /\ nextId' = Generated("tx")
        /\ Await(p, c, "w3", WithTransaction(s, tx))

\* The credit record has landed; transfer returns success.
TransferCreditRecorded(p) ==
    LET c == calls[p] IN
    /\ c.op = "transfer" /\ c.pc = "w3"
    /\ store' = c.pending
    /\ Return(p, c, "ok")
    /\ UNCHANGED nextId

----------------------------------------------------------------------------
(* BankManager: createAccount, updateAccount, closeAccount.                 *)

BankArgs == (DOMAIN store.banks) \cup {None}
CurrencyArgs == (DOMAIN store.currencies) \cup {None}
EconomyArgs == (DOMAIN store.economies) \cup {None}

\* Early returns that leave out the comparison of the two economies.
CreateAccountErrorNoEconomyCheck(s, bankId, currencyId) ==
    IF ~Has(s.banks, bankId) THEN "Bank not found"
    ELSE IF ~Has(s.currencies, currencyId) THEN "Currency not found"
    ELSE "none"

\* The early returns of createAccount, in the order the code makes them: the
\* error it returns on the store s, or "none" when every check passes.
CreateAccountError(s, bankId, currencyId) ==
    IF ~Has(s.banks, bankId) THEN "Bank not found"
    ELSE IF ~Has(s.currencies, currencyId) THEN "Currency not found"
    ELSE IF s.currencies[currencyId].economyId # s.banks[bankId].economyId
         THEN "Currency does not belong to bank's economy"
    ELSE "none"

\* createAccount(bankId, currencyId, ...) up to its await.
CreateAccount(p, bankId, currencyId) ==
    LET c == Enter("createAccount", bankId, currencyId, R(0)) IN
    /\ Free(p) /\ Budget
    /\ UNCHANGED store
    /\ IF CreateAccountError(store, bankId, currencyId) # "none"
       THEN Return(p, c, CreateAccountError(store, bankId, currencyId)) /\ UNCHANGED nextId
       ELSE /\ nextId' = Generated("acc")
            /\ Await(p, [c EXCEPT !.tx1 = GenerateId("acc")], "w1",
                     WithAccount(store, GenerateId("acc"), NewAccount(bankId, currencyId)))

\* The account write has landed; createAccount returns the account.
AccountCreated(p) ==
    LET c == calls[p] IN
    /\ c.op = "createAccount" /\ c.pc = "w1"
    /\ store' = c.pending
    /\ Return(p, c, "ok")
    /\ UNCHANGED nextId

\* An update that deletes the account's record instead of replacing it.
UpdateAccountRemoving(s, id, isActive) ==
    [s EXCEPT !.accounts = [k \in (DOMAIN @) \ {id} |-> @[k]]]

\* The store updateAccount(id, updates) hands to settings.set: the account
\* it reads with isActive replaced.
UpdateAccount(s, id, isActive) ==
    WithAccount(s, id, [s.accounts[id] EXCEPT !.isActive = isActive])

\* closeAccount(id) up to the await inside updateAccount.
CloseAccount(p, id) ==
    LET c == Enter("closeAccount", id, None, R(0)) IN
    /\ Free(p) /\ Budget
    /\ UNCHANGED <<store, nextId>>
    /\ IF ~Has(store.accounts, id) THEN Return(p, c, "Account not found")
       ELSE IF store.accounts[id].balance # R(0)
            THEN Return(p, c, "Cannot close account with non-zero balance")
       ELSE Await(p, c, "w1", UpdateAccount(store, id, FALSE))

\* updateAccount(id, { isActive }) called by itself, up to its await: it
\* looks at nothing but whether the account exists.
UpdateAccountActive(p, id, isActive) ==
    LET c == Enter("updateAccount", id, None, R(0)) IN
    /\ Free(p) /\ Budget
    /\ UNCHANGED <<store, nextId>>
    /\ IF ~Has(store.accounts, id) THEN Return(p, c, "Account not found")
       ELSE Await(p, c, "w1", UpdateAccount(store, id, isActive))

\* updateAccount's write has landed; updateAccount, or the closeAccount that
\* called it, returns success.
AccountClosed(p) ==
    LET c == calls[p] IN
    /\ c.op \in {"closeAccount", "updateAccount"} /\ c.pc = "w1"
    /\ store' = c.pending
    /\ Return(p, c, "ok")
    /\ UNCHANGED nextId

----------------------------------------------------------------------------
(* EconomyManager: createCurrency, updateEconomy, setExchangeRate.          *)

\* Base values passed to createCurrency; none is validated by the code.
BaseValueArgs == {1, 2, -1}

\* Rates passed to setExchangeRate; none is validated by the code.
RateArgs == {2, -1}

\* createCurrency(economyId, ..., baseValue) up to its first await.
CreateCurrency(p, economyId, baseValue) ==
    LET c == Enter("createCurrency", economyId, None, R(baseValue)) IN
    /\ Free(p) /\ Budget
    /\ UNCHANGED store
    /\ IF ~Has(store.economies, economyId)
       THEN Return(p, c, "Economy not found") /\ UNCHANGED nextId
       ELSE LET currency == [economyId |-> economyId, baseValue |-> R(baseValue)]
            IN  /\ nextId' = Generated("cur")
                /\ Await(p, [c EXCEPT !.cur1 = GenerateId("cur")], "w1",
                         [store EXCEPT !.currencies = Put(@, GenerateId("cur"), currency)])

\* A createCurrency that never makes the new currency the base currency.
CurrencySavedWithoutPromotion(p) ==
    LET c == calls[p] IN
    /\ c.op = "createCurrency" /\ c.pc = "w1"
    /\ store' = c.pending
    /\ UNCHANGED nextId
    /\ Return(p, c, "ok")

\* The currency write has landed.  With baseValue === 1, updateEconomy makes
\* the new currency the economy's base currency (a second write); if the
\* economy is gone by now updateEconomy answers failure, which is ignored.
CurrencySaved(p) ==
    LET c == calls[p]
        s == c.pending
    IN  /\ c.op = "createCurrency" /\ c.pc = "w1"
        /\ store' = s
        /\ UNCHANGED nextId
        /\ IF c.amt = R(1) /\ Has(s.economies, c.a)
           THEN Await(p, c, "w2",
                      [s EXCEPT !.economies =
                          Put(@, c.a, [s.economies[c.a] EXCEPT !.baseCurrencyId = c.cur1])])
           ELSE Return(p, c, "ok")

\* updateEconomy's write has landed; createCurrency returns the currency.
BaseCurrencySet(p) ==
    LET c == calls[p] IN
    /\ c.op = "createCurrency" /\ c.pc = "w2"
    /\ store' = c.pending
    /\ Return(p, c, "ok")
    /\ UNCHANGED nextId

\* Is an override stored for the ordered pair (from, to)?
HasRate(s, from, to) ==
    \E i \in DOMAIN s.exchangeRates :
        /\ s.exchangeRates[i].fromCurrencyId = from
        /\ s.exchangeRates[i].toCurrencyId = to

\* setExchangeRate(fromCurrencyId, toCurrencyId, rate) up to its await.
SetExchangeRate(p, from, to, rate) ==
    LET c == Enter("setExchangeRate", from, to, R(rate)) IN
    /\ Free(p) /\ Budget
    /\ UNCHANGED <<store, nextId>>
    /\ IF ~Has(store.currencies, from) \/ ~Has(store.currencies, to)
       THEN Return(p, c, "Currency not found")
       ELSE LET exchangeRate == [fromCurrencyId |-> from, toCurrencyId |-> to,
                                 rate |-> R(rate)]
                rates == SelectSeq(store.exchangeRates,
                            LAMBDA r : ~(r.fromCurrencyId = from /\ r.toCurrencyId = to))
            IN  Await(p, c, "w1", [store EXCEPT !.exchangeRates = Append(rates, exchangeRate)])

\* The rate write has landed; setExchangeRate returns the rate.
RateSaved(p) ==
    LET c == calls[p] IN
    /\ c.op = "setExchangeRate" /\ c.pc = "w1"
    /\ store' = c.pending
    /\ Return(p, c, "ok")
    /\ UNCHANGED nextId

\* A caller asks getExchangeRate(from, to) and has the answer at once: the
\* rate in tamt, or "null".
QueryExchangeRate(p, from, to) ==
    LET c == Enter("getExchangeRate", from, to, R(0))
        rate == GetExchangeRate(store, from, to)
    IN  /\ Free(p)
        /\ UNCHANGED <<store, nextId>>
        /\ IF rate = Null THEN Return(p, c, "null")
           ELSE Return(p, [c EXCEPT !.tamt = rate], "ok")

\* Early returns that leave out the search for accounts in the currency.
DeleteCurrencyErrorNoAccountCheck(s, id) ==
    IF ~Has(s.currencies, id) THEN "Currency not found" ELSE "none"

\* The early returns of deleteCurrency: the error it returns on the store s,
\* or "none" when the currency exists and no account uses it.
DeleteCurrencyError(s, id) ==
    IF ~Has(s.currencies, id) THEN "Currency not found"
    ELSE IF \E a \in DOMAIN s.accounts : s.accounts[a].currencyId = id
         THEN "Cannot delete currency: accounts exist using this currency"
    ELSE "none"

\* deleteCurrency(id) up to its await: the updater drops the key id from
\* currencies and leaves economies and exchangeRates as they are.
DeleteCurrency(p, id) ==
    LET c == Enter("deleteCurrency", id, None, R(0)) IN
    /\ Free(p) /\ Budget
    /\ UNCHANGED <<store, nextId>>
    /\ IF DeleteCurrencyError(store, id) # "none"
       THEN Return(p, c, DeleteCurrencyError(store, id))
       ELSE Await(p, c, "w1",
                  [store EXCEPT !.currencies = [k \in (DOMAIN @) \ {id} |-> @[k]]])

\* The write has landed; deleteCurrency returns success.
CurrencyDeleted(p) ==
    LET c == calls[p] IN
    /\ c.op = "deleteCurrency" /\ c.pc = "w1"
    /\ store' = c.pending
    /\ Return(p, c, "ok")
    /\ UNCHANGED nextId

----------------------------------------------------------------------------
(* BankManager: deleteBank.  EconomyManager: deleteEconomy.                *)

\* Early returns that leave out the search for accounts at the bank.
DeleteBankErrorNoAccountCheck(s, id) ==
    IF ~Has(s.banks, id) THEN "Bank not found" ELSE "none"

\* The early returns of deleteBank: the error it returns on the store s, or
\* "none" when the bank exists and no account is held at it.
DeleteBankError(s, id) ==
    IF ~Has(s.banks, id) THEN "Bank not found"
    ELSE IF \E a \in DOMAIN s.accounts : s.accounts[a].bankId = id
         THEN "Cannot delete bank: accounts exist"
    ELSE "none"

\* deleteBank(id) up to its await: the updater drops the key id from banks.
DeleteBank(p, id) ==
    LET c == Enter("deleteBank", id, None, R(0)) IN
    /\ Free(p) /\ Budget
    /\ UNCHANGED <<store, nextId>>
    /\ IF DeleteBankError(store, id) # "none"
       THEN Return(p, c, DeleteBankError(store, id))
       ELSE Await(p, c, "w1",
                  [store EXCEPT !.banks = [k \in (DOMAIN @) \ {id} |-> @[k]]])

\* The write has landed; deleteBank returns success.
BankDeleted(p) ==
    LET c == calls[p] IN
    /\ c.op = "deleteBank" /\ c.pc = "w1"
    /\ store' = c.pending
    /\ Return(p, c, "ok")
    /\ UNCHANGED nextId

\* deleteEconomy(id) up to its await: the updater drops the economy, the
\* currencies and the banks of that economy, the accounts at those banks and
\* the records whose account is not among the accounts that stay.
DeleteEconomy(p, id) ==
    LET c == Enter("deleteEconomy", id, None, R(0))
        s == store
        currencies == {k \in DOMAIN s.currencies : s.currencies[k].economyId # id}
        bankIds == {k \in DOMAIN s.banks : s.banks[k].economyId = id}
        accountIds == {k \in DOMAIN s.accounts : s.accounts[k].bankId \notin bankIds}
    IN  /\ Free(p) /\ Budget
        /\ UNCHANGED <<store, nextId>>
        /\ IF ~Has(s.economies, id) THEN Return(p, c, "Economy not found")
           ELSE Await(p, c, "w1",
                  [s EXCEPT
                     !.economies = [k \in (DOMAIN @) \ {id} |-> @[k]],
                     !.currencies = [k \in currencies |-> @[k]],
                     !.banks = [k \in (DOMAIN @) \ bankIds |-> @[k]],
                     !.accounts = [k \in accountIds |-> @[k]],
                     !.transactions = SelectSeq(@, LAMBDA t : t.accountId \in accountIds)])

\* The write has landed; deleteEconomy returns success.
EconomyDeleted(p) ==
    LET c == calls[p] IN
    /\ c.op = "deleteEconomy" /\ c.pc = "w1"
    /\ store' = c.pending
    /\ Return(p, c, "ok")
    /\ UNCHANGED nextId

----------------------------------------------------------------------------
(* EconomyManager: addDnD5eCurrencies, addPathfinderCurrencies.             *)

\* The base values of the preset currencies: Platinum, Gold, Electrum,
\* Silver, Copper.
DND5E_CURRENCIES == << R(10), R(1), Norm(1, 2), Norm(1, 10), Norm(1, 100) >>

\* Platinum, Gold, Silver, Copper.
PATHFINDER_CURRENCIES == << R(10), R(1), Norm(1, 10), Norm(1, 100) >>

\* The loop `for (const c of PRESET) await createCurrency(economyId, ...)`
\* from the preset after the c.i-th on, the store being s: createCurrency
\* answers failure for an economy that s does not hold, and the loop drops
\* that answer and goes on, to the same answer, as nothing changes the store
\* meanwhile; otherwise it hands the store with the next currency to
\* updateDataStore.  After the last preset the call returns
\* { success: true }.
AddPresetCurrencies(p, c, s) ==
    LET presets == IF c.op = "addDnD5eCurrencies" THEN DND5E_CURRENCIES
                   ELSE PATHFINDER_CURRENCIES
    IN  IF c.i = Len(presets) \/ ~Has(s.economies, c.a)
        THEN Return(p, c, "ok") /\ UNCHANGED nextId
        ELSE /\ nextId' = Generated("cur")
             /\ Await(p, [c EXCEPT !.i = @ + 1, !.cur1 = GenerateId("cur"),
                                   !.amt = presets[c.i + 1]],
                      IF c.i = 0 THEN "w1" ELSE "w2",
                      [s EXCEPT !.currencies =
                          Put(@, GenerateId("cur"),
                              [economyId |-> c.a, baseValue |-> presets[c.i + 1]])])

\* addDnD5eCurrencies(economyId) up to its first await.
AddDnD5eCurrencies(p, economyId) ==
    /\ Free(p) /\ Budget
    /\ UNCHANGED store
    /\ AddPresetCurrencies(p, Enter("addDnD5eCurrencies", economyId, None, R(0)), store)

\* addPathfinderCurrencies(economyId) up to its first await.
AddPathfinderCurrencies(p, economyId) ==
    /\ Free(p) /\ Budget
    /\ UNCHANGED store
    /\ AddPresetCurrencies(p, Enter("addPathfinderCurrencies", economyId, None, R(0)), store)

\* A write of a createCurrency of the loop has landed.  After the currency
\* write, with baseValue === 1, updateEconomy makes the currency the base
\* currency (a second write, at "w3"); otherwise, and after that second
\* write, createCurrency returns and the loop goes on.
PresetWriteLanded(p) ==
    LET c == calls[p]
        s == c.pending
    IN  /\ c.op \in {"addDnD5eCurrencies", "addPathfinderCurrencies"}
        /\ c.pc \in {"w1", "w2", "w3"}
        /\ store' = s
        /\ IF c.pc # "w3" /\ c.amt = R(1) /\ Has(s.economies, c.a)
           THEN /\ Await(p, c, "w3",
                         [s EXCEPT !.economies =
                             Put(@, c.a, [s.economies[c.a] EXCEPT !.baseCurrencyId = c.cur1])])
                /\ UNCHANGED nextId
           ELSE AddPresetCurrencies(p, c, s)

----------------------------------------------------------------------------
(* Specifications.                                                          *)

\* The steps by which a ledger call in slot p goes on after its write landed.
LandsLedger(p) ==
    \/ DepositBalanceSaved(p)
    \/ DepositRecorded(p)
    \/ WithdrawBalanceSaved(p)
    \/ WithdrawRecorded(p)
    \/ TransferBalancesSaved(p)
    \/ TransferDebitRecorded(p)
    \/ TransferCreditRecorded(p)

\* The steps by which a catalog call in slot p goes on after its write landed.
LandsAdmin(p) ==
    \/ AccountCreated(p)
    \/ AccountClosed(p)
    \/ CurrencySaved(p)
    \/ BaseCurrencySet(p)
    \/ RateSaved(p)

\* The ledger calls a caller can make in slot p, with account ids drawn from
\* accounts and amounts from amounts.
EntersLedger(p, accounts, amounts) ==
    \/ \E id \in accounts, amount \in amounts : Deposit(p, id, amount)
    \/ \E id \in accounts, amount \in amounts : Withdraw(p, id, amount)
    \/ \E from \in accounts, to \in accounts, amount \in amounts :
          Transfer(p, from, to, amount)

\* The catalog calls a caller can make in slot p.
EntersAdmin(p) ==
    \/ \E bankId \in BankArgs, currencyId \in CurrencyArgs : CreateAccount(p, bankId, currencyId)
    \/ \E id \in AccountArgs : CloseAccount(p, id)
    \/ \E economyId \in EconomyArgs, baseValue \in BaseValueArgs :
          CreateCurrency(p, economyId, baseValue)
    \/ \E from \in CurrencyArgs, to \in CurrencyArgs, rate \in RateArgs :
          SetExchangeRate(p, from, to, rate)

\* The number of catalog changes made on top of the initial world.
AdminChanges ==
    (Cardinality(DOMAIN store.accounts) - Cardinality(DOMAIN WorldStore.accounts))
    + Cardinality({id \in DOMAIN store.accounts : ~store.accounts[id].isActive})
    + (Cardinality(DOMAIN store.currencies) - Cardinality(DOMAIN WorldStore.currencies))
    + Len(store.exchangeRates)

\* One caller making ledger and catalog calls: every call runs to completion
\* before the next is made, and every store write succeeds.
NextSeq ==
    \/ EntersLedger(1, AccountArgs, AmountArgs)
    \/ (AdminChanges < MaxAdmin /\ EntersAdmin(1))
    \/ LandsLedger(1)
    \/ LandsAdmin(1)
    \/ Returned(1)

SpecSeq == Init /\ [][NextSeq]_vars

----------------------------------------------------------------------------
(* The catalog on its own: currencies, exchange rates and new accounts.    *)

\* The world of the ledger specifications before its last two createAccount
\* calls: Platinum (cur 2) and Crown (cur 3, the base and only currency of
\* eco 2) have no account yet.
CatalogStore ==
    [WorldStore EXCEPT
        !.accounts = [id \in {Id("acc", 1), Id("acc", 2)} |-> WorldStore.accounts[id]]]

InitCatalog ==
    /\ store = CatalogStore
    /\ calls = [p \in Procs |-> Idle]
    /\ nextId = [eco |-> 3, cur |-> 4, bank |-> 3, acc |-> 3, tx |-> 2]
    /\ ops = 0
    /\ legacy = NoLegacy /\ actors = NoActors /\ timer = NoTimer
    /\ conv = NoConversion
    /\ trip = NoTrip

\* The catalog calls of SpecCatalog that can write to the store.
EntersCatalog(p) ==
    \/ \E bankId \in BankArgs, currencyId \in CurrencyArgs : CreateAccount(p, bankId, currencyId)
    \/ \E economyId \in EconomyArgs, baseValue \in BaseValueArgs :
          CreateCurrency(p, economyId, baseValue)
    \/ \E from \in CurrencyArgs, to \in CurrencyArgs, rate \in RateArgs :
          SetExchangeRate(p, from, to, rate)
    \/ \E id \in CurrencyArgs : DeleteCurrency(p, id)
    \/ \E id \in AccountArgs : CloseAccount(p, id)
    \/ \E id \in AccountArgs, isActive \in BOOLEAN : UpdateAccountActive(p, id, isActive)
    \/ \E id \in BankArgs : DeleteBank(p, id)
    \/ \E id \in EconomyArgs : DeleteEconomy(p, id)
    \/ \E economyId \in EconomyArgs : AddDnD5eCurrencies(p, economyId)
    \/ \E economyId \in EconomyArgs : AddPathfinderCurrencies(p, economyId)

\* One caller making catalog calls and rate queries: every call runs to
\* completion before the next is made, every store write succeeds, and at
\* most MaxAdmin calls write.
NextCatalog ==
    \/ (ops < MaxAdmin /\ EntersCatalog(1))
    \/ \E from \in CurrencyArgs, to \in CurrencyArgs : QueryExchangeRate(1, from, to)
    \/ AccountCreated(1)
    \/ CurrencySaved(1)
    \/ BaseCurrencySet(1)
    \/ RateSaved(1)
    \/ CurrencyDeleted(1)
    \/ AccountClosed(1)
    \/ BankDeleted(1)
    \/ EconomyDeleted(1)
    \/ PresetWriteLanded(1)
    \/ Returned(1)

SpecCatalog == InitCatalog /\ [][NextCatalog]_vars

----------------------------------------------------------------------------
(* The conversion of a cross-currency transfer, in binary64.               *)

\* A rate lookup that divides the base values the wrong way round.
DerivedRate64Inverted(p, q) == Div64(q, p)

\* getExchangeRate for two currencies of one economy with no override
\* stored: from.baseValue / to.baseValue
DerivedRate64(fromBase, toBase) == Div64(fromBase, toBase)

\* Amounts transferred: small ones, and the hundred gold pieces of the
\* documentation's example.
ConvAmounts == (1..MaxConvAmount) \cup {100}

\* Base values of the two currencies.
ConvBaseValues == 1..MaxBaseValue

\* A transfer of `amount` between accounts whose currencies, of one
\* economy, have the base values fromBase and toBase, about to convert.
InitConv ==
    /\ store = WorldStore
    /\ calls = [p \in Procs |-> Idle]
    /\ nextId = [eco |-> 3, cur |-> 4, bank |-> 3, acc |-> 5, tx |-> 2]
    /\ ops = 0
    /\ legacy = NoLegacy /\ actors = NoActors /\ timer = NoTimer
    /\ trip = NoTrip
    /\ \E amount \in ConvAmounts, fromBase \in ConvBaseValues, toBase \in ConvBaseValues :
          conv = [NoConversion EXCEPT !.pc = "start", !.amount = amount,
                                      !.fromBase = fromBase, !.toBase = toBase]

\* const rate = getExchangeRate(fromAccount.currencyId, toAccount.currencyId)
ResolveRate ==
    /\ conv.pc = "start"
    /\ conv' = [conv EXCEPT !.pc = "rate",
                            !.rate = DerivedRate64(conv.fromBase, conv.toBase)]
    /\ UNCHANGED <<store, calls, nextId, ops, trip, legacy, actors, timer>>

\* transferAmount = amount * rate
ConvertAmount ==
    /\ conv.pc = "rate"
    /\ conv' = [conv EXCEPT !.pc = "done",
                            !.transferAmount = Mul64(conv.amount, conv.rate)]
    /\ UNCHANGED <<store, calls, nextId, ops, trip, legacy, actors, timer>>

NextConv == ResolveRate \/ ConvertAmount

SpecConv == InitConv /\ [][NextConv]_vars

----------------------------------------------------------------------------
(* deposit then withdraw on one active account, in binary64.               *)

\* Amounts and balances: whole coins and tenths of a coin; a balance x is
\* what deposit(x) leaves on a new account, 0 + x.
TripAmounts ==
    {Div64(n, 1) : n \in 1..MaxTenths} \cup {Div64(n, 10) : n \in 1..MaxTenths}

TripBalances == {Zero64} \cup TripAmounts

\* An active account with the balance `original`, and a caller about to
\* deposit `amount` and then withdraw it; transactions holds the records the
\* two calls append.
InitTrip ==
    /\ store = WorldStore
    /\ calls = [p \in Procs |-> Idle]
    /\ nextId = [eco |-> 3, cur |-> 4, bank |-> 3, acc |-> 5, tx |-> 2]
    /\ ops = 0
    /\ legacy = NoLegacy /\ actors = NoActors /\ timer = NoTimer
    /\ conv = NoConversion
    /\ \E original \in TripBalances, amount \in TripAmounts :
          trip = [NoTrip EXCEPT !.pc = "start", !.original = original,
                                !.amount = amount, !.balance = original]

\* A record of the account: recordTransaction(accountId, type, amount,
\* currencyId, balanceAfter), the amount held as its sign and its size.
Tx64(type, negative, amount, balanceAfter) ==
    [type |-> type, negative |-> negative, amount |-> amount, balanceAfter |-> balanceAfter]

\* deposit(accountId, amount), amount > 0, both writes landed.
Deposit64 ==
    /\ trip.pc = "start"
    /\ LET newBalance == Add64(trip.balance, trip.amount)
       IN  trip' = [trip EXCEPT
                      !.pc = "deposited",
                      !.balance = newBalance,
                      !.transactions = Append(@, Tx64("deposit", FALSE, trip.amount, newBalance))]
    /\ UNCHANGED <<store, calls, nextId, ops, conv, legacy, actors, timer>>

\* withdraw(accountId, amount), amount > 0, both writes landed.
Withdraw64 ==
    /\ trip.pc = "deposited"
    /\ IF Less64(trip.balance, trip.amount)
       THEN trip' = [trip EXCEPT !.pc = "done", !.res = "Insufficient funds"]
       ELSE LET newBalance == Sub64(trip.balance, trip.amount)
            IN  trip' = [trip EXCEPT
                           !.pc = "done",
                           !.res = "ok",
                           !.balance = newBalance,
                           !.transactions =
                               Append(@, Tx64("withdrawal", TRUE, trip.amount, newBalance))]
    /\ UNCHANGED <<store, calls, nextId, ops, conv, legacy, actors, timer>>

NextTrip == Deposit64 \/ Withdraw64

SpecTrip == InitTrip /\ [][NextTrip]_vars

\* A new call takes the first free slot.
FirstFree(p) == \A q \in Procs : q < p => ~Free(q)

\* Callers making ledger calls that overlap, on existing accounts and with
\* positive amounts, over a store whose writes can fail.  A call that fails
\* validation returns at once and touches nothing but its own result, so
\* only the calls that get as far as a store write are entered here; SpecSeq
\* covers the others.
Next ==
    \E p \in Procs :
        \/ /\ FirstFree(p)
           /\ EntersLedger(p, DOMAIN store.accounts, 1..MaxAmount)
           /\ calls'[p].pc = "w1"
        \/ LandsLedger(p)
        \/ Returned(p)
        \/ SaveFails(p)

Spec == Init /\ [][Next]_vars

----------------------------------------------------------------------------
(* EconomyManager, the array-based engine: loadEconomyData,                *)
(* saveEconomyData, createEconomy, deleteEconomy, createAccount.  One       *)
(* settings key holds the whole EconomyData; one caller makes the calls.    *)

\* Date.now(): the clock reads `after` or one millisecond more.
DateNow(after) == {t \in after..MaxNow : t <= after + 1}

\* An economy built without its first currency.
NewEconomyWithoutCurrency(economyId, currencyId) ==
    [id |-> economyId, currencies |-> <<>>, baseCurrencyId |-> currencyId]

\* The economy createEconomy builds, with its first currency inside it.
NewEconomy(economyId, currencyId) ==
    [ id |-> economyId,
      currencies |-> << [id |-> currencyId, baseValue |-> 1, isBase |-> TRUE] >>,
      baseCurrencyId |-> currencyId ]

\* A world saved earlier: two economies, a bank in each, an account of
\* actor1 at each bank and one record of each account.
LegacyWorld ==
    [ economies |-> << NewEconomy(Id("eco", 1), Id("cur", 1)),
                       NewEconomy(Id("eco", 2), Id("cur", 2)) >>,
      banks |-> << [id |-> Id("bank", 1), economyId |-> Id("eco", 1)],
                   [id |-> Id("bank", 2), economyId |-> Id("eco", 2)] >>,
      accounts |-> << [id |-> Id("acc", 1), bankId |-> Id("bank", 1), ownerActorId |-> "actor1"],
                      [id |-> Id("acc", 2), bankId |-> Id("bank", 2), ownerActorId |-> "actor1"] >>,
      transactions |-> << [id |-> Id("tx", 1), accountId |-> Id("acc", 1), bankId |-> Id("bank", 1)],
                          [id |-> Id("tx", 2), accountId |-> Id("acc", 2), bankId |-> Id("bank", 2)] >> ]

\* loadEconomyData answers from defaultData when game.settings is missing or
\* the key holds nothing.
LoadsDefault(l) == l.settings = "absent" \/ ~l.persisted

\* loadEconomyData.  `{ ...defaultData }` copies the four array references,
\* so the arrays of the object returned are defaultData's own arrays.
LoadEconomyData(l) == IF LoadsDefault(l) THEN l.defaultData ELSE l.stored

\* game.settings exists or not; the key holds LegacyWorld or nothing; no
\* call has been made.
InitLegacy ==
    /\ store = WorldStore
    /\ calls = [p \in Procs |-> Idle]
    /\ nextId = [eco |-> 3, cur |-> 4, bank |-> 3, acc |-> 5, tx |-> 2]
    /\ ops = 0
    /\ conv = NoConversion /\ trip = NoTrip /\ actors = NoActors /\ timer = NoTimer
    /\ \E settings \in {"present", "absent"}, persisted \in BOOLEAN :
          /\ settings = "absent" => ~persisted
          /\ legacy = [NoLegacy EXCEPT
                          !.pc = "idle", !.settings = settings, !.persisted = persisted,
                          !.stored = IF persisted THEN LegacyWorld ELSE EmptyData,
                          !.now = 3]

\* A call is made, none being in flight and fewer than MaxLegacyCalls having
\* been made, and runs its synchronous part: `data` is
\* the object the call loaded, as the call has changed it, `default` is
\* defaultData as the call leaves it, `ret` is what the call is going to
\* return, and pc is "saving" when saveEconomyData has been called.
LegacyCalled(op, a, b, data, default, ret, now, pc) ==
    /\ legacy.pc \in {"idle", "done"} /\ legacy.n < MaxLegacyCalls
    /\ legacy' = [legacy EXCEPT
                     !.op = op, !.a = a, !.b = b, !.loaded = LoadEconomyData(legacy),
                     !.data = data, !.defaultData = default, !.ret = ret, !.now = now,
                     !.pc = pc, !.pre = legacy.stored, !.saved = "none", !.n = @ + 1]
    /\ UNCHANGED <<store, calls, nextId, ops, conv, trip, actors, timer>>

\* createEconomy up to its await: data.economies.push(economy) changes the
\* array in place, which is defaultData.economies when the data was loaded
\* from defaultData.
LegacyCreateEconomy ==
    /\ \E t1 \in DateNow(legacy.now) : \E t2 \in DateNow(t1) :
          LET data == LoadEconomyData(legacy)
              economy == NewEconomy(Id("eco", t1), Id("cur", t2))
              economies == Append(data.economies, economy)
          IN  LegacyCalled("createEconomy", None, None,
                           [data EXCEPT !.economies = economies],
                           IF LoadsDefault(legacy)
                           THEN [legacy.defaultData EXCEPT !.economies = economies]
                           ELSE legacy.defaultData,
                           [kind |-> "economy", value |-> economy], t2, "saving")

\* deleteEconomy up to its await: the four arrays of the loaded object are
\* replaced by filtered copies; it is going to return true whatever the id.
LegacyDeleteEconomy(economyId) ==
    LET data == LoadEconomyData(legacy)
        bankIds == {data.banks[i].id : i \in {j \in DOMAIN data.banks :
                                                data.banks[j].economyId = economyId}}
    IN  LegacyCalled("deleteEconomy", economyId, None,
           [ economies |-> SelectSeq(data.economies, LAMBDA e : e.id # economyId),
             banks |-> SelectSeq(data.banks, LAMBDA k : k.economyId # economyId),
             accounts |-> SelectSeq(data.accounts, LAMBDA k : k.bankId \notin bankIds),
             transactions |-> SelectSeq(data.transactions, LAMBDA t : t.bankId \notin bankIds) ],
           legacy.defaultData, [kind |-> "true", value |-> None], legacy.now, "saving")

\* An account-finding createAccount that finds none.
ExistingAccountNotSought(data, bankId, ownerActorId) == <<>>

\* data.accounts.find(a => a.bankId === bankId && a.ownerActorId ===
\* ownerActorId): the accounts of that owner at that bank, the first of
\* which is the one found.
ExistingAccount(data, bankId, ownerActorId) ==
    SelectSeq(data.accounts, LAMBDA k : k.bankId = bankId /\ k.ownerActorId = ownerActorId)

\* createAccount up to its await: null for an unknown bank, the account
\* found for the pair (bank, owner), else a new account pushed on
\* data.accounts.
LegacyCreateAccount(bankId, ownerActorId) ==
    LET data == LoadEconomyData(legacy)
        existing == ExistingAccount(data, bankId, ownerActorId)
    IN  IF ~\E i \in DOMAIN data.banks : data.banks[i].id = bankId
        THEN LegacyCalled("createAccount", bankId, ownerActorId, data, legacy.defaultData,
                          [kind |-> "null", value |-> None], legacy.now, "done")
        ELSE IF existing # <<>>
        THEN LegacyCalled("createAccount", bankId, ownerActorId, data, legacy.defaultData,
                          [kind |-> "account", value |-> Head(existing)], legacy.now, "done")
        ELSE \E t \in DateNow(legacy.now) :
                LET account == [id |-> Id("acc", t), bankId |-> bankId,
                                ownerActorId |-> ownerActorId]
                    accounts == Append(data.accounts, account)
                IN  LegacyCalled("createAccount", bankId, ownerActorId,
                                 [data EXCEPT !.accounts = accounts],
                                 IF LoadsDefault(legacy)
                                 THEN [legacy.defaultData EXCEPT !.accounts = accounts]
                                 ELSE legacy.defaultData,
                                 [kind |-> "account", value |-> account], t, "saving")

\* saveEconomyData: without game.settings it returns without writing; with
\* it, settings.set stores the data or rejects, and a rejection is caught
\* and logged.  Either way the call that awaited it goes on to return.
SaveEconomyData ==
    /\ legacy.pc = "saving"
    /\ \E ok \in BOOLEAN :
          legacy' = [legacy EXCEPT
                        !.pc = "done",
                        !.saved = IF legacy.settings = "absent" THEN "skipped"
                                  ELSE IF ok THEN "saved" ELSE "failed",
                        !.stored = IF legacy.settings = "present" /\ ok THEN legacy.data ELSE @,
                        !.persisted = @ \/ (legacy.settings = "present" /\ ok)]
    /\ UNCHANGED <<store, calls, nextId, ops, conv, trip, actors, timer>>

\* One caller of the array-based engine; every call runs to completion
\* before the next is made.
NextLegacy ==
    \/ LegacyCreateEconomy
    \/ \E economyId \in {Id("eco", 1), Id("eco", 3), None} : LegacyDeleteEconomy(economyId)
    \/ \E bankId \in {Id("bank", 1), None}, ownerActorId \in {"actor1", "actor2"} :
          LegacyCreateAccount(bankId, ownerActorId)
    \/ SaveEconomyData

SpecLegacy == InitLegacy /\ [][NextLegacy]_vars

----------------------------------------------------------------------------
(* SystemCurrency: transferCurrencyBetweenActors, removeCurrencyFromActor, *)
(* addCurrencyToActor, on the wallets of two actors.                        *)

Actors == {"sender", "recipient"}

\* Two actors, each holding up to MaxCoins coins; no transfer made yet.
InitActors ==
    /\ store = WorldStore
    /\ calls = [p \in Procs |-> Idle]
    /\ nextId = [eco |-> 3, cur |-> 4, bank |-> 3, acc |-> 5, tx |-> 2]
    /\ ops = 0
    /\ conv = NoConversion /\ trip = NoTrip /\ legacy = NoLegacy /\ timer = NoTimer
    /\ \E currency \in [Actors -> 0..MaxCoins] :
          actors = [NoActors EXCEPT !.pc = "idle", !.currency = currency,
                                    !.original = currency]

\* transferCurrencyBetweenActors up to its first await: false when
\* actorHasCurrency finds less than amount with the sender; otherwise
\* removeCurrencyFromActor computes the sender's new amount and calls
\* actor.update.
TransferCurrencyBetweenActors(from, to, amount) ==
    LET called == [actors EXCEPT !.from = from, !.to = to, !.amount = amount,
                                 !.original = actors.currency, !.rollback = "none",
                                 !.n = @ + 1]
        currentAmount == actors.currency[from]
    IN  /\ actors.pc \in {"idle", "done"} /\ actors.n < MaxTransfers
        /\ actors' = IF ~(currentAmount >= amount) \/ currentAmount < amount
                     THEN [called EXCEPT !.pc = "done", !.res = "false"]
                     ELSE [called EXCEPT !.pc = "removing", !.res = "none",
                                         !.newAmount = currentAmount - amount]
        /\ UNCHANGED <<store, calls, nextId, ops, conv, trip, legacy, timer>>

\* An awaited actor.update resolves (ok) or rejects, or the actor has no
\* update method.  Resolved, it has set the actor's amount to the amount
\* computed before the await.  removeCurrencyFromActor and addCurrencyToActor
\* turn a rejection into false.  After the sender's update the recipient's
\* follows; if that one fails, addCurrencyToActor is called for the sender and
\* false is returned whatever its result.
ActorUpdate ==
    /\ \E ok \in BOOLEAN :
          LET a == actors IN
          \/ /\ a.pc = "removing"
             /\ actors' =
                   IF ok
                   THEN [a EXCEPT !.currency[a.from] = a.newAmount, !.pc = "adding",
                                  !.newAmount =
                                     (IF a.to = a.from THEN a.newAmount ELSE a.currency[a.to])
                                        + a.amount]
                   ELSE [a EXCEPT !.pc = "done", !.res = "false"]
          \/ /\ a.pc = "adding"
             /\ actors' =
                   IF ok
                   THEN [a EXCEPT !.currency[a.to] = a.newAmount, !.pc = "done", !.res = "true"]
                   ELSE [a EXCEPT !.pc = "rollback", !.newAmount = a.currency[a.from] + a.amount]
          \/ /\ a.pc = "rollback"
             /\ actors' =
                   [a EXCEPT !.currency[a.from] = IF ok THEN a.newAmount ELSE @,
                             !.rollback = IF ok THEN "done" ELSE "failed",
                             !.pc = "done", !.res = "false"]
    /\ UNCHANGED <<store, calls, nextId, ops, conv, trip, legacy, timer>>

\* One caller making transfers of 1..MaxCoins coins between the two actors,
\* an actor to itself included, each transfer finished before the next.
NextActors ==
    \/ \E from \in Actors, to \in Actors, amount \in 1..MaxCoins :
          TransferCurrencyBetweenActors(from, to, amount)
    \/ ActorUpdate

SpecActors == InitActors /\ [][NextActors]_vars

----------------------------------------------------------------------------
(* SocketManager: requestTransfer, the listener of initializeSocket,       *)
(* handleTransferRequest.  The socket delivers what a client emits to      *)
(* every other client; the actors are world documents, the same on every   *)
(* client.                                                                  *)

\* Two actors holding up to MaxCoins coins each, 0..MaxGMs GM clients
\* connected with their listeners installed, and a player who has not sent a
\* request yet.
InitSocket ==
    /\ store = WorldStore
    /\ calls = [p \in Procs |-> Idle]
    /\ nextId = [eco |-> 3, cur |-> 4, bank |-> 3, acc |-> 5, tx |-> 2]
    /\ ops = 0
    /\ conv = NoConversion /\ trip = NoTrip /\ legacy = NoLegacy /\ timer = NoTimer
    /\ \E currency \in [Actors -> 0..MaxCoins], k \in 0..MaxGMs :
          actors = [NoActors EXCEPT
                       !.pc = "idle", !.currency = currency, !.original = currency,
                       !.gms = [g \in 1..k |-> [pc |-> "idle", newAmount |-> 0]]]

\* A handler that emits nothing.
EmitsNothing(a, g, success, message) == [a EXCEPT !.gms[g].pc = "done"]

\* emitSocket(TRANSFER_COMPLETE, { ...payload, success, message }) by GM
\* client g, whose handler then ends.
EmitSocket(a, g, success, message) ==
    [a EXCEPT !.gms[g].pc = "done",
              !.answers = @ \cup {[gm |-> g, success |-> success, message |-> message]}]

\* requestTransfer by a player (not a GM): the request is emitted and is on
\* its way to every GM client.
RequestTransfer(from, to, amount) ==
    /\ actors.pc = "idle"
    /\ actors' = [actors EXCEPT
                     !.pc = "requested", !.from = from, !.to = to, !.amount = amount,
                     !.gms = [g \in DOMAIN @ |-> [pc |-> "received", newAmount |-> 0]]]
    /\ UNCHANGED <<store, calls, nextId, ops, conv, trip, legacy, timer>>

\* The listener of GM client g gets the TRANSFER_REQUEST and runs
\* handleTransferRequest up to its first await: it answers failure for an
\* unknown actor or when the sender holds less than amount, and otherwise
\* calls fromActor.update with currentAmount - amount.
HandleTransferRequest(g) ==
    /\ actors.gms[g].pc = "received"
    /\ actors' =
          IF actors.from \notin Actors \/ actors.to \notin Actors
          THEN EmitSocket(actors, g, FALSE, "Actor not found")
          ELSE IF actors.currency[actors.from] < actors.amount
          THEN EmitSocket(actors, g, FALSE, "Insufficient funds")
          ELSE [actors EXCEPT
                   !.gms[g] = [pc |-> "debiting",
                               newAmount |-> actors.currency[actors.from] - actors.amount]]
    /\ UNCHANGED <<store, calls, nextId, ops, conv, trip, legacy, timer>>

\* An actor.update awaited by handleTransferRequest on GM client g resolves
\* (ok) or rejects.  After the sender's update the handler reads the
\* recipient's amount and calls toActor.update; after the recipient's it
\* answers success.  A rejection of either lands in the catch, which answers
\* failure.
HandlerUpdate(g) ==
    /\ \E ok \in BOOLEAN :
          LET a == actors
              h == a.gms[g]
              debited == [a EXCEPT !.currency[a.from] = h.newAmount]
          IN  \/ /\ h.pc = "debiting"
                 /\ actors' =
                       IF ok
                       THEN [debited EXCEPT
                                !.gms[g] = [pc |-> "crediting",
                                            newAmount |-> debited.currency[a.to] + a.amount]]
                       ELSE EmitSocket(a, g, FALSE, "Error")
              \/ /\ h.pc = "crediting"
                 /\ actors' =
                       IF ok
                       THEN EmitSocket([a EXCEPT !.currency[a.to] = h.newAmount], g, TRUE,
                                       "Transferred")
                       ELSE EmitSocket(a, g, FALSE, "Error")
    /\ UNCHANGED <<store, calls, nextId, ops, conv, trip, legacy, timer>>

NextSocket ==
    \/ \E from \in Actors \cup {"nobody"}, to \in Actors \cup {"nobody"}, amount \in 1..MaxCoins :
          RequestTransfer(from, to, amount)
    \/ \E g \in DOMAIN actors.gms : HandleTransferRequest(g)
    \/ \E g \in DOMAIN actors.gms : HandlerUpdate(g)

\* The socket delivers a request to every connected GM client, and every
\* actor.update settles.
SpecSocket ==
    /\ InitSocket /\ [][NextSocket]_vars
    /\ \A g \in 1..MaxGMs : WF_vars(g \in DOMAIN actors.gms /\ HandleTransferRequest(g))
    /\ \A g \in 1..MaxGMs : WF_vars(g \in DOMAIN actors.gms /\ HandlerUpdate(g))

----------------------------------------------------------------------------
(* BankManager: the queries getTransactions and getAllTransactions.        *)

\* A Transaction record with the fields the queries read.
TxAt(n, accountId, createdAt) ==
    [id |-> Id("tx", n), accountId |-> accountId, createdAt |-> createdAt]

\* The transaction lists recordTransaction can have left: records appended
\* one after the other, each stamped with now() at its creation, so that
\* createdAt never decreases along the list.
RecordedLists ==
    UNION { { [i \in 1..n |-> TxAt(i, acc[i], at[i])] :
                acc \in [1..n -> {Id("acc", 1), Id("acc", 2)}],
                at \in { f \in [1..n -> 1..MaxNow] :
                            \A i \in 1..n : \A j \in i..n : f[i] <= f[j] } } :
            n \in 0..MaxRecorded }

InitQuery ==
    /\ \E txs \in RecordedLists : store = [WorldStore EXCEPT !.transactions = txs]
    /\ calls = [p \in Procs |-> Idle]
    /\ nextId = [eco |-> 3, cur |-> 4, bank |-> 3, acc |-> 5, tx |-> 2]
    /\ ops = 0
    /\ conv = NoConversion /\ trip = NoTrip
    /\ legacy = NoLegacy /\ actors = NoActors /\ timer = NoTimer

\* txs.sort((a, b) => b.createdAt - a.createdAt): newest first, records of one
\* instant in the order they had (Array.prototype.sort is stable).
SortNewestFirst(txs) ==
    LET RECURSIVE From(_)
        From(times) ==
            IF times = {} THEN <<>>
            ELSE LET t == CHOOSE x \in times : \A y \in times : y <= x
                 IN  SelectSeq(txs, LAMBDA r : r.createdAt = t) \o From(times \ {t})
    IN  From({txs[i].createdAt : i \in DOMAIN txs})

\* slice(0, limit)
Slice(txs, limit) == SubSeq(txs, 1, IF Len(txs) < limit THEN Len(txs) ELSE limit)

\* A query has returned `result`, leaving the store as `s`.
Queried(op, accountId, result, s) ==
    /\ ops < MaxOps
    /\ ops' = ops + 1
    /\ calls' = [calls EXCEPT ![1] = [Idle EXCEPT !.op = op, !.pc = "done", !.a = accountId,
                                                  !.res = result, !.pre = store]]
    /\ store' = s
    /\ UNCHANGED <<nextId, conv, trip, legacy, actors, timer>>

\* getTransactions(accountId, limit): filter builds a new array, which is
\* sorted and sliced.
GetTransactions(accountId, limit) ==
    Queried("getTransactions", accountId,
            Slice(SortNewestFirst(SelectSeq(store.transactions,
                                            LAMBDA t : t.accountId = accountId)), limit),
            store)

\* getAllTransactions(limit): sort works in place on store.transactions, the
\* array of the object getDataStore returned.  A host whose settings.get hands
\* out the value it holds (held) has its list sorted by that; a host that
\* hands out a fresh copy keeps its list.
GetAllTransactions(limit) ==
    \E held \in BOOLEAN :
        LET sorted == SortNewestFirst(store.transactions)
        IN  Queried("getAllTransactions", None, Slice(sorted, limit),
                    IF held THEN [store EXCEPT !.transactions = sorted] ELSE store)

NextQuery ==
    \/ \E accountId \in {Id("acc", 1), Id("acc", 2), None}, limit \in {1, 50} :
          GetTransactions(accountId, limit)
    \/ \E limit \in {1, 100} : GetAllTransactions(limit)

SpecQuery == InitQuery /\ [][NextQuery]_vars

----------------------------------------------------------------------------
(* helpers: debounce(fn, delay), on a host whose clock counts time units   *)
(* and which runs a timeout when the clock reaches its due time, before     *)
(* anything else happens at that instant (the fake timers of                *)
(* helpers.test.ts).                                                        *)

\* A debounced function has been made with a delay of 1..MaxDelay time
\* units and not been called yet.
InitDebounce ==
    /\ store = WorldStore
    /\ calls = [p \in Procs |-> Idle]
    /\ nextId = [eco |-> 3, cur |-> 4, bank |-> 3, acc |-> 5, tx |-> 2]
    /\ ops = 0
    /\ conv = NoConversion /\ trip = NoTrip /\ legacy = NoLegacy /\ actors = NoActors
    /\ \E delay \in 1..MaxDelay : timer = [NoTimer EXCEPT !.pc = "made", !.delay = delay]

\* Some scheduled timeout is due.
TimeoutDue == \E t \in timer.timeouts : t.due <= timer.now

\* A clearTimeout that cancels nothing.
ClearTimeoutNothing(timeouts, id) == timeouts

\* clearTimeout(id): the timeout with that id, if still scheduled, is
\* cancelled.
ClearTimeout(timeouts, id) == {t \in timeouts : t.id # id}

\* The debounced function is called with args: clearTimeout(timeoutId), then
\* timeoutId = setTimeout(() => fn(...args), delay).  At most MaxEvents calls
\* and invocations are followed, none past MaxTime.
Debounced(args) ==
    LET id == Len(timer.log) + 1
        timeout == [id |-> id, due |-> timer.now + timer.delay, args |-> args]
    IN  /\ timer.pc = "made" /\ ~TimeoutDue
        /\ Len(timer.log) + 2 <= MaxEvents
        /\ timer.now + timer.delay <= MaxTime
        /\ timer' = [timer EXCEPT
                        !.timeouts = ClearTimeout(timer.timeouts, timer.timeoutId)
                                        \cup {timeout},
                        !.timeoutId = id,
                        !.log = Append(@, [kind |-> "call", at |-> timer.now, args |-> args])]
        /\ UNCHANGED <<store, calls, nextId, ops, conv, trip, legacy, actors>>

\* The host runs a due timeout: () => fn(...args).
TimeoutRuns ==
    /\ \E t \in timer.timeouts :
          /\ t.due <= timer.now
          /\ timer' = [timer EXCEPT
                          !.timeouts = @ \ {t},
                          !.log = Append(@, [kind |-> "fn", at |-> timer.now, args |-> t.args])]
    /\ UNCHANGED <<store, calls, nextId, ops, conv, trip, legacy, actors>>

\* One time unit passes; no timeout is due.
Tick ==
    /\ timer.pc = "made" /\ ~TimeoutDue
    /\ timer.now < MaxTime
    /\ timer' = [timer EXCEPT !.now = @ + 1]
    /\ UNCHANGED <<store, calls, nextId, ops, conv, trip, legacy, actors>>

NextDebounce ==
    \/ \E args \in {"arg1", "arg2"} : Debounced(args)
    \/ TimeoutRuns
    \/ Tick

\* The host's clock goes on and the host runs the timeouts that are due.
SpecDebounce ==
    InitDebounce /\ [][NextDebounce]_vars /\ WF_vars(TimeoutRuns) /\ WF_vars(Tick)

----------------------------------------------------------------------------
(* helpers: throttle(fn, limit), on the same host.                          *)

\* A throttled function has been made with a limit of 1..MaxDelay time units
\* and not been called yet.
InitThrottle == InitDebounce

\* A throttled function that invokes fn on every call.
ThrottledWithoutLimit(args) ==
    /\ timer.pc = "made" /\ ~TimeoutDue
    /\ Len(timer.log) + 2 <= MaxEvents
    /\ timer' = [timer EXCEPT
                    !.log = @ \o << [kind |-> "call", at |-> timer.now, args |-> args],
                                    [kind |-> "fn", at |-> timer.now, args |-> args] >>]
    /\ UNCHANGED <<store, calls, nextId, ops, conv, trip, legacy, actors>>

\* The throttled function is called with args: if (!inThrottle) it runs
\* fn(...args), sets inThrottle and schedules the timeout that clears it;
\* otherwise it does nothing.
Throttled(args) ==
    LET call == [kind |-> "call", at |-> timer.now, args |-> args]
        timeout == [id |-> Len(timer.log) + 1, due |-> timer.now + timer.delay,
                    args |-> "none"]
    IN  /\ timer.pc = "made" /\ ~TimeoutDue
        /\ Len(timer.log) + 2 <= MaxEvents
        /\ timer' = IF ~timer.inThrottle
                    THEN [timer EXCEPT
                             !.log = @ \o << call, [call EXCEPT !.kind = "fn"] >>,
                             !.inThrottle = TRUE,
                             !.timeouts = @ \cup {timeout}]
                    ELSE [timer EXCEPT !.log = Append(@, call)]
        /\ UNCHANGED <<store, calls, nextId, ops, conv, trip, legacy, actors>>

\* The host runs the due timeout: () => (inThrottle = false).
ThrottleEnds ==
    /\ \E t \in timer.timeouts :
          /\ t.due <= timer.now
          /\ timer' = [timer EXCEPT !.timeouts = @ \ {t}, !.inThrottle = FALSE]
    /\ UNCHANGED <<store, calls, nextId, ops, conv, trip, legacy, actors>>

NextThrottle ==
    \/ \E args \in {"arg1", "arg2"} : Throttled(args)
    \/ ThrottleEnds
    \/ Tick

SpecThrottle == InitThrottle /\ [][NextThrottle]_vars

----------------------------------------------------------------------------
(* Properties of deposit and withdraw (one caller, SpecSeq).  A finished   *)
(* call keeps in `pre` the store it found when it was entered.             *)

\* C9: a successful deposit of amount A > 0 into an active account with
\* balance B sets its balance to B + A and appends exactly one record of type
\* "deposit" with amount A and balanceAfter B + A; a deposit with amount <= 0,
\* into an unknown account or into an inactive account fails and changes
\* nothing.
C9_DepositContract ==
    \A p \in Procs :
        LET c == calls[p]
            valid == /\ RLess(R(0), c.amt)
                     /\ Has(c.pre.accounts, c.a)
                     /\ c.pre.accounts[c.a].isActive
        IN  (c.op = "deposit" /\ c.pc = "done") =>
            IF valid
            THEN LET account == c.pre.accounts[c.a]
                     after == RAdd(account.balance, c.amt)
                     last == store.transactions[Len(store.transactions)]
                 IN  /\ c.res = "ok"
                     /\ store.accounts[c.a].balance = after
                     /\ Len(store.transactions) = Len(c.pre.transactions) + 1
                     /\ last.accountId = c.a
                     /\ last.type = "deposit"
                     /\ last.amount = c.amt
                     /\ last.balanceAfter = after
                     /\ store = WithTransaction(
                                  WithAccount(c.pre, c.a, [account EXCEPT !.balance = after]),
                                  last)
            ELSE c.res # "ok" /\ store = c.pre

\* A deposit has succeeded and the balance has grown by the amount.
C9_Deposited ==
    \E p \in Procs :
        /\ calls[p].op = "deposit" /\ calls[p].pc = "done" /\ calls[p].res = "ok"
        /\ store.accounts[calls[p].a].balance
             = RAdd(calls[p].pre.accounts[calls[p].a].balance, calls[p].amt)

\* C10: a successful withdraw of amount A with 0 < A <= B from an active
\* account with balance B sets its balance to B - A and appends exactly one
\* record of type "withdrawal" with amount -A and balanceAfter B - A; a
\* withdraw of the whole balance (A = B) succeeds; a withdraw with amount <= 0,
\* from an unknown or inactive account, or with A > B fails and changes
\* nothing.
C10_WithdrawContract ==
    \A p \in Procs :
        LET c == calls[p]
            valid == /\ RLess(R(0), c.amt)
                     /\ Has(c.pre.accounts, c.a)
                     /\ c.pre.accounts[c.a].isActive
                     /\ RLeq(c.amt, c.pre.accounts[c.a].balance)
        IN  (c.op = "withdraw" /\ c.pc = "done") =>
            IF valid
            THEN LET account == c.pre.accounts[c.a]
                     after == RSub(account.balance, c.amt)
                     last == store.transactions[Len(store.transactions)]
                 IN  /\ c.res = "ok"
                     /\ store.accounts[c.a].balance = after
                     /\ Len(store.transactions) = Len(c.pre.transactions) + 1
                     /\ last.accountId = c.a
                     /\ last.type = "withdrawal"
                     /\ last.amount = RNeg(c.amt)
                     /\ last.balanceAfter = after
                     /\ store = WithTransaction(
                                  WithAccount(c.pre, c.a, [account EXCEPT !.balance = after]),
                                  last)
            ELSE c.res # "ok" /\ store = c.pre

\* The whole balance of an account has been withdrawn.
C10_WithdrewAll ==
    \E p \in Procs :
        /\ calls[p].op = "withdraw" /\ calls[p].pc = "done" /\ calls[p].res = "ok"
        /\ calls[p].amt = calls[p].pre.accounts[calls[p].a].balance
        /\ store.accounts[calls[p].a].balance = R(0)

----------------------------------------------------------------------------
(* Properties of transfer (one caller, SpecSeq).                           *)

\* C5: a successful transfer of amount A from active account X with balance
\* B >= A to active account Y in the same currency sets X.balance = B - A and
\* Y.balance = Y.old + A and appends exactly two records: first the debit leg
\* (accountId X, type "transfer", amount -A, balanceAfter B - A,
\* relatedAccountId Y), then the credit leg (accountId Y, type "transfer",
\* amount A, balanceAfter Y.old + A, relatedAccountId X,
\* relatedTransactionId = the debit leg's id).
C5_SameCurrencyTransfer ==
    \A p \in Procs :
        LET c == calls[p] IN
        ( /\ c.op = "transfer" /\ c.pc = "done" /\ c.res = "ok"
          /\ c.pre.accounts[c.a].currencyId = c.pre.accounts[c.b].currencyId ) =>
        LET X == c.pre.accounts[c.a]
            Y == c.pre.accounts[c.b]
            n == Len(c.pre.transactions)
            debit == store.transactions[n + 1]
            credit == store.transactions[n + 2]
        IN  /\ store.accounts[c.a].balance = RSub(X.balance, c.amt)
            /\ store.accounts[c.b].balance = RAdd(Y.balance, c.amt)
            /\ Len(store.transactions) = n + 2
            /\ SubSeq(store.transactions, 1, n) = c.pre.transactions
            /\ debit.accountId = c.a /\ debit.type = "transfer"
            /\ debit.amount = RNeg(c.amt)
            /\ debit.balanceAfter = RSub(X.balance, c.amt)
            /\ debit.relatedAccountId = c.b
            /\ credit.accountId = c.b /\ credit.type = "transfer"
            /\ credit.amount = c.amt
            /\ credit.balanceAfter = RAdd(Y.balance, c.amt)
            /\ credit.relatedAccountId = c.a
            /\ credit.relatedTransactionId = debit.id

\* A transfer from an account to itself has succeeded.
C5_SelfTransfer ==
    \E p \in Procs :
        /\ calls[p].op = "transfer" /\ calls[p].pc = "done" /\ calls[p].res = "ok"
        /\ calls[p].a = calls[p].b

\* C6 as stated: a transfer whose source balance is less than the amount
\* returns the failure "Insufficient funds" and leaves every account balance
\* and the transaction list unchanged.
C6_AlwaysInsufficientFunds ==
    \A p \in Procs :
        LET c == calls[p] IN
        ( /\ c.op = "transfer" /\ c.pc = "done"
          /\ Has(c.pre.accounts, c.a)
          /\ RLess(c.pre.accounts[c.a].balance, c.amt) ) =>
        /\ c.res = "Insufficient funds"
        /\ store.accounts = c.pre.accounts
        /\ store.transactions = c.pre.transactions

\* C6: a transfer whose source balance is less than the amount fails and
\* leaves every account balance and the transaction list unchanged; the
\* failure it returns is "Insufficient funds" when the amount is positive and
\* source and destination both exist and are active (the checks made first
\* return their own failure otherwise).
C6_InsufficientFunds ==
    \A p \in Procs :
        LET c == calls[p] IN
        ( /\ c.op = "transfer" /\ c.pc = "done"
          /\ Has(c.pre.accounts, c.a)
          /\ RLess(c.pre.accounts[c.a].balance, c.amt) ) =>
        /\ c.res # "ok"
        /\ store.accounts = c.pre.accounts
        /\ store.transactions = c.pre.transactions
        /\ ( ( /\ RLess(R(0), c.amt)
               /\ Has(c.pre.accounts, c.b)
               /\ c.pre.accounts[c.a].isActive
               /\ c.pre.accounts[c.b].isActive )
             <=> c.res = "Insufficient funds" )

\* A transfer of more than the source holds has returned "Insufficient funds".
C6_Refused ==
    \E p \in Procs :
        /\ calls[p].op = "transfer" /\ calls[p].pc = "done"
        /\ calls[p].res = "Insufficient funds"
        /\ RLess(calls[p].pre.accounts[calls[p].a].balance, calls[p].amt)

\* C7: a transfer between two active accounts whose currencies have no
\* derivable exchange rate (different economies, no override stored for the
\* pair) fails with no balance changed and no transaction appended: the rate
\* is resolved before any store write, so the call hands no document to the
\* host.
C7_NoRateNoChange ==
    \A p \in Procs :
        LET c == calls[p] IN
        ( /\ c.op = "transfer" /\ c.pc = "done"
          /\ Has(c.pre.accounts, c.a) /\ Has(c.pre.accounts, c.b)
          /\ c.pre.accounts[c.a].isActive /\ c.pre.accounts[c.b].isActive
          /\ LET from == c.pre.accounts[c.a].currencyId
                 to == c.pre.accounts[c.b].currencyId
             IN  /\ from # to
                 /\ c.pre.currencies[from].economyId # c.pre.currencies[to].economyId
                 /\ ~HasRate(c.pre, from, to) ) =>
        /\ c.res # "ok"
        /\ store = c.pre
        /\ c.pending = DefaultStore

\* A transfer with funds, between active accounts of two economies, has
\* been turned away for want of a rate.
C7_CannotConvert ==
    \E p \in Procs :
        /\ calls[p].op = "transfer" /\ calls[p].pc = "done"
        /\ calls[p].res = "Cannot convert between these currencies"
        /\ store = calls[p].pre

----------------------------------------------------------------------------
(* Properties of the balances (one caller, SpecSeq).                       *)

\* C1: for every account, balance >= 0 after any sequence of createAccount,
\* deposit, withdraw, transfer, closeAccount, createCurrency and
\* setExchangeRate calls made one after the other.
C1_BalancesNonNegative ==
    (\A p \in Procs : calls[p].pc \in {"idle", "done"}) =>
    \A id \in DOMAIN store.accounts : RLeq(R(0), store.accounts[id].balance)

\* A transfer converted at a stored negative rate has succeeded.
C1_NegativeRateTransfer ==
    \E p \in Procs :
        /\ calls[p].op = "transfer" /\ calls[p].pc = "done" /\ calls[p].res = "ok"
        /\ RLess(calls[p].tamt, R(0))

----------------------------------------------------------------------------
(* Properties of overlapping calls and failing writes (Spec).              *)

\* C2: when two deposits into one account overlap (the second is entered
\* before the first's store write has completed, so both find the same store
\* and the same balance B) and both succeed, the final balance reflects both:
\* it is B plus the two amounts.
C2_BothDepositsReflected ==
    \A p, q \in Procs :
        LET c == calls[p]
            d == calls[q]
        IN  ( /\ p # q
              /\ c.op = "deposit" /\ c.pc = "done" /\ c.res = "ok"
              /\ d.op = "deposit" /\ d.pc = "done" /\ d.res = "ok"
              /\ c.a = d.a
              /\ c.pre = d.pre ) =>
            store.accounts[c.a].balance
              = RAdd(RAdd(c.pre.accounts[c.a].balance, c.amt), d.amt)

\* Two deposits into one account have overlapped and both have succeeded.
C2_OverlappingDeposits ==
    \E p, q \in Procs :
        /\ p # q
        /\ calls[p].op = "deposit" /\ calls[p].pc = "done" /\ calls[p].res = "ok"
        /\ calls[q].op = "deposit" /\ calls[q].pc = "done" /\ calls[q].res = "ok"
        /\ calls[p].a = calls[q].a
        /\ calls[p].pre = calls[q].pre

\* C3: a transfer is applied as one persisted store update: in no persisted
\* store are the transfer's balance changes present while one or both of its
\* records (the debit leg, and the credit leg linked to it) are missing.
C3_TransferOneUpdate ==
    \A p \in Procs :
        LET c == calls[p] IN
        ( /\ c.op = "transfer" /\ c.pc \in {"w2", "w3", "done"}
          /\ c.tx1 # None
          /\ store.accounts[c.a].balance = c.nb1
          /\ store.accounts[c.b].balance = c.nb2
          /\ store.accounts # c.pre.accounts ) =>
        /\ \E i \in DOMAIN store.transactions : store.transactions[i].id = c.tx1
        /\ \E i \in DOMAIN store.transactions :
              store.transactions[i].relatedTransactionId = c.tx1

\* The balances of a transfer are in the persisted store and its debit
\* record is still on its way.
C3_BalancesWithoutRecords ==
    \E p \in Procs :
        /\ calls[p].op = "transfer" /\ calls[p].pc = "w2"
        /\ store.accounts[calls[p].a].balance = calls[p].nb1
        /\ store.accounts # calls[p].pre.accounts

\* C4: if a store write fails during a transfer after the two balances have
\* been written, transfer restores both accounts' balances before it reports
\* the failure.  Stated for a transfer that is the only call to have written.
C4_RollbackOnFailure ==
    \A p \in Procs :
        LET c == calls[p] IN
        ( /\ c.op = "transfer" /\ c.pc = "done" /\ c.res = "threw"
          /\ c.a # c.b
          /\ ops = 1 ) =>
        /\ store.accounts[c.a].balance = c.pre.accounts[c.a].balance
        /\ store.accounts[c.b].balance = c.pre.accounts[c.b].balance

\* A transfer has failed on the write of one of its records, after its
\* balances were written.
C4_RecordWriteFailed ==
    \E p \in Procs :
        /\ calls[p].op = "transfer" /\ calls[p].pc = "done" /\ calls[p].res = "threw"
        /\ calls[p].a # calls[p].b
        /\ calls[p].tx1 # None
        /\ ops = 1

----------------------------------------------------------------------------
(* Properties of the conversion (SpecConv).                                 *)

\* C8 as stated: for two currencies of one economy with no override stored,
\* the destination is credited amount * from.baseValue / to.baseValue: the
\* double that the expression amount * from.baseValue / to.baseValue has.
C8_CreditedExactQuotient ==
    conv.pc = "done" =>
    conv.transferAmount = Div64(conv.amount * conv.fromBase, conv.toBase)

\* C8: for two currencies of one economy with no override stored, the
\* destination is credited the double amount * rate, rate being the double
\* from.baseValue / to.baseValue.  The credit is within a relative error of
\* 2^-51 of amount * from.baseValue / to.baseValue (as real numbers), and
\* with base values 1 and 10 a transfer of 100 gold credits exactly 10
\* platinum.
C8_CreditedWithinRounding ==
    conv.pc = "done" =>
    LET x == conv.transferAmount
        n == BNat(conv.amount * conv.fromBase)
        \* x and n / toBase, both scaled by toBase * 2^(-x.e)
        credited == BMul(x.m, conv.toBase, 0)
        exact == BShl(n, -x.e)
    IN  /\ x = Mul64(conv.amount, Div64(conv.fromBase, conv.toBase))
        /\ x.e <= 0
        /\ BCmp(BShl(BDist(credited, exact), 51), exact) <= 0
        /\ (conv.amount = 100 /\ conv.fromBase = 1 /\ conv.toBase = 10) => x = FromInt(10)

\* A hundred gold pieces have been converted to ten platinum pieces.
C8_HundredGold ==
    /\ conv.pc = "done"
    /\ conv.amount = 100 /\ conv.fromBase = 1 /\ conv.toBase = 10
    /\ conv.transferAmount = FromInt(10)

----------------------------------------------------------------------------
(* Properties of deposit followed by withdraw (SpecTrip, binary64).        *)

\* C11: for an active account and an amount > 0, deposit(amount) followed by
\* withdraw(amount) returns the balance to its original value and appends
\* exactly two records, whose balanceAfter are original + amount and original.
C11_RoundTrip ==
    trip.pc = "done" =>
        /\ trip.res = "ok"
        /\ trip.balance = trip.original
        /\ Len(trip.transactions) = 2
        /\ trip.transactions[1].balanceAfter = Add64(trip.original, trip.amount)
        /\ trip.transactions[2].balanceAfter = trip.original

\* Both calls have succeeded and the balance is not the original one.
C11_Drifted ==
    /\ trip.pc = "done" /\ trip.res = "ok"
    /\ Len(trip.transactions) = 2
    /\ trip.balance # trip.original

----------------------------------------------------------------------------
(* Properties of the catalog and of the records (one caller, SpecSeq).     *)

\* C12: while an account is inactive, deposit and withdraw on it and transfer
\* from it or to it all fail, leaving its balance unchanged and appending no
\* record that names it: the store is left as the call found it.
C12_InactiveRefused ==
    \A p \in Procs :
        LET c == calls[p]
            inactive(id) == Has(c.pre.accounts, id) /\ ~c.pre.accounts[id].isActive
        IN  ( /\ c.pc = "done"
              /\ \/ c.op \in {"deposit", "withdraw"} /\ inactive(c.a)
                 \/ c.op = "transfer" /\ (inactive(c.a) \/ inactive(c.b)) ) =>
            /\ c.res # "ok"
            /\ store = c.pre

\* A transfer that the source could pay has been refused because the
\* destination account is inactive.
C12_TransferToClosed ==
    \E p \in Procs :
        LET c == calls[p] IN
        /\ c.op = "transfer" /\ c.pc = "done" /\ c.res # "ok"
        /\ Has(c.pre.accounts, c.a) /\ Has(c.pre.accounts, c.b)
        /\ c.pre.accounts[c.a].isActive /\ ~c.pre.accounts[c.b].isActive
        /\ RLess(R(0), c.amt) /\ RLeq(c.amt, c.pre.accounts[c.a].balance)
        /\ store = c.pre

\* C13: whenever no operation is in progress, each account's balance equals
\* the sum, starting from zero, of the signed amounts of the records whose
\* accountId is that account, and equals the balanceAfter of the latest such
\* record (0 if there is none).
C13_Replay ==
    (\A p \in Procs : ~InFlight(p)) =>
    \A id \in DOMAIN store.accounts :
        LET mine == SelectSeq(store.transactions, LAMBDA t : t.accountId = id)
            RECURSIVE Replayed(_)
            Replayed(n) == IF n = 0 THEN R(0) ELSE RAdd(Replayed(n - 1), mine[n].amount)
        IN  /\ store.accounts[id].balance = Replayed(Len(mine))
            /\ store.accounts[id].balance
                 = IF mine = <<>> THEN R(0) ELSE mine[Len(mine)].balanceAfter

\* A transfer from an account to itself has succeeded, and the records of
\* the account no longer add up to its balance.
C13_SelfTransferDone ==
    \E p \in Procs :
        LET c == calls[p] IN
        /\ c.op = "transfer" /\ c.pc = "done" /\ c.res = "ok" /\ c.a = c.b
        /\ store.accounts[c.a].balance = RAdd(c.pre.accounts[c.a].balance, c.amt)
        /\ Len(store.transactions) = Len(c.pre.transactions) + 2

\* C32: a successful transfer between two accounts of the same currency, the
\* account itself included, leaves the sum of the balances of all accounts
\* of that currency as it was before the call.
C32_SumPreserved ==
    \A p \in Procs :
        LET c == calls[p]
            currencyId == c.pre.accounts[c.a].currencyId
            Total(s) ==
                LET ids == {k \in DOMAIN s.accounts : s.accounts[k].currencyId = currencyId}
                    RECURSIVE Sum(_)
                    Sum(S) == IF S = {} THEN R(0)
                              ELSE LET k == CHOOSE x \in S : TRUE
                                   IN  RAdd(s.accounts[k].balance, Sum(S \ {k}))
                IN  Sum(ids)
        IN  ( /\ c.op = "transfer" /\ c.pc = "done" /\ c.res = "ok"
              /\ c.pre.accounts[c.a].currencyId = c.pre.accounts[c.b].currencyId ) =>
            Total(store) = Total(c.pre)

\* A successful transfer of an account to itself has raised its balance by
\* the amount.
C32_MoneyCreated ==
    \E p \in Procs :
        LET c == calls[p] IN
        /\ c.op = "transfer" /\ c.pc = "done" /\ c.res = "ok" /\ c.a = c.b
        /\ store.accounts[c.a].balance = RAdd(c.pre.accounts[c.a].balance, c.amt)

----------------------------------------------------------------------------
(* Properties of the records under overlapping calls (Spec).               *)

\* C14: no deposit, withdraw or transfer call removes, reorders or alters a
\* record already in the store: at every step the transaction list before the
\* step is a prefix of the list after it.
C14_AppendOnly ==
    [][ /\ Len(store.transactions) <= Len(store'.transactions)
        /\ SubSeq(store'.transactions, 1, Len(store.transactions)) = store.transactions
      ]_vars

\* A deposit has returned success and the store holds no more records than
\* the deposit found: the record it appended has been removed.
C14_RecordRemoved ==
    \E p \in Procs :
        LET c == calls[p] IN
        /\ c.op = "deposit" /\ c.pc = "done" /\ c.res = "ok"
        /\ Len(store.transactions) <= Len(c.pre.transactions)

\* C33: two finished withdraw or transfer calls that debit the same account
\* and both found it with the balance B, with amounts that add up to more
\* than B, have not both returned success.
C33_NoDoubleSpend ==
    \A p \in Procs : \A q \in Procs :
        LET c == calls[p]
            d == calls[q]
        IN  ( /\ p # q
              /\ c.pc = "done" /\ c.op \in {"withdraw", "transfer"}
              /\ d.pc = "done" /\ d.op \in {"withdraw", "transfer"}
              /\ c.a = d.a
              /\ c.pre.accounts[c.a].balance = d.pre.accounts[d.a].balance
              /\ RLess(c.pre.accounts[c.a].balance, RAdd(c.amt, d.amt)) ) =>
            ~(c.res = "ok" /\ d.res = "ok")

\* Two overlapping withdrawals of 2 from a balance of 2 have both returned
\* success.
C33_BothWithdrawn ==
    /\ \A p \in Procs :
          /\ calls[p].pc = "done" /\ calls[p].op = "withdraw" /\ calls[p].res = "ok"
          /\ calls[p].a = Id("acc", 1) /\ calls[p].amt = R(2)
          /\ calls[p].pre.accounts[Id("acc", 1)].balance = R(2)
    /\ store.accounts[Id("acc", 1)].balance = R(0)

----------------------------------------------------------------------------
(* Properties of the catalog (one caller, SpecCatalog).                    *)

\* C15: for two existing currencies getExchangeRate answers 1 when the ids
\* are equal; otherwise the rate of the override stored for the ordered pair
\* (from, to) if there is one; otherwise from.baseValue / to.baseValue when
\* both belong to one economy; otherwise null.
C15_RateResolution ==
    \A p \in Procs :
        LET c == calls[p]
            s == c.pre
            overrides == { i \in DOMAIN s.exchangeRates :
                             /\ s.exchangeRates[i].fromCurrencyId = c.a
                             /\ s.exchangeRates[i].toCurrencyId = c.b }
        IN  ( /\ c.op = "getExchangeRate" /\ c.pc = "done"
              /\ Has(s.currencies, c.a) /\ Has(s.currencies, c.b) ) =>
            /\ store = s
            /\ IF c.a = c.b THEN c.res = "ok" /\ c.tamt = R(1)
               ELSE IF overrides # {}
               THEN c.res = "ok" /\ \A i \in overrides : c.tamt = s.exchangeRates[i].rate
               ELSE IF s.currencies[c.a].economyId = s.currencies[c.b].economyId
               THEN /\ c.res = "ok"
                    /\ c.tamt = RDiv(s.currencies[c.a].baseValue, s.currencies[c.b].baseValue)
               ELSE c.res = "null"

\* getExchangeRate has answered with an override stored for two currencies of
\* one economy, which is not the ratio of their base values.
C15_OverrideAnswered ==
    \E p \in Procs :
        LET c == calls[p] IN
        /\ c.op = "getExchangeRate" /\ c.pc = "done" /\ c.res = "ok"
        /\ c.a # c.b
        /\ HasRate(c.pre, c.a, c.b)
        /\ c.pre.currencies[c.a].economyId = c.pre.currencies[c.b].economyId
        /\ c.tamt # RDiv(c.pre.currencies[c.a].baseValue, c.pre.currencies[c.b].baseValue)

\* C16: createAccount fails and adds nothing when the bank is unknown, the
\* currency is unknown, or the currency's economy differs from the bank's;
\* the account it creates starts active with balance 0; hence every stored
\* account's currency belongs to the economy of its bank.
C16_CreateAccountContract ==
    /\ \A p \in Procs :
          LET c == calls[p]
              s == c.pre
              valid == /\ Has(s.banks, c.a) /\ Has(s.currencies, c.b)
                       /\ s.currencies[c.b].economyId = s.banks[c.a].economyId
          IN  (c.op = "createAccount" /\ c.pc = "done") =>
              IF valid
              THEN /\ c.res = "ok"
                   /\ ~Has(s.accounts, c.tx1)
                   /\ Has(store.accounts, c.tx1)
                   /\ store.accounts[c.tx1].isActive
                   /\ store.accounts[c.tx1].balance = R(0)
                   /\ store.accounts[c.tx1].bankId = c.a
                   /\ store.accounts[c.tx1].currencyId = c.b
                   /\ store = WithAccount(s, c.tx1, store.accounts[c.tx1])
              ELSE c.res # "ok" /\ store = s
    /\ \A id \in DOMAIN store.accounts :
          LET account == store.accounts[id] IN
          /\ Has(store.banks, account.bankId)
          /\ Has(store.currencies, account.currencyId)
          /\ store.currencies[account.currencyId].economyId
               = store.banks[account.bankId].economyId

\* An account has been created: the store holds one more account, active and
\* with balance 0.
C16_AccountAdded ==
    \E p \in Procs :
        LET c == calls[p] IN
        /\ c.op = "createAccount" /\ c.pc = "done" /\ c.res = "ok"
        /\ Cardinality(DOMAIN store.accounts) = Cardinality(DOMAIN c.pre.accounts) + 1
        /\ store.accounts[c.tx1].balance = R(0) /\ store.accounts[c.tx1].isActive

\* C18: deleteCurrency fails and leaves the store unchanged while any account
\* uses the currency, and succeeds, removing the currency and nothing else,
\* once no account uses it.
C18_DeleteCurrencyContract ==
    \A p \in Procs :
        LET c == calls[p]
            s == c.pre
            used == \E a \in DOMAIN s.accounts : s.accounts[a].currencyId = c.a
        IN  (c.op = "deleteCurrency" /\ c.pc = "done" /\ Has(s.currencies, c.a)) =>
            IF used
            THEN c.res # "ok" /\ store = s
            ELSE /\ c.res = "ok"
                 /\ ~Has(store.currencies, c.a)
                 /\ \A k \in (DOMAIN s.currencies) \ {c.a} :
                       Has(store.currencies, k) /\ store.currencies[k] = s.currencies[k]
                 /\ [store EXCEPT !.currencies = s.currencies] = s

\* A currency that no account uses has been deleted.
C18_UnusedCurrencyDeleted ==
    \E p \in Procs :
        LET c == calls[p] IN
        /\ c.op = "deleteCurrency" /\ c.pc = "done" /\ c.res = "ok"
        /\ Has(c.pre.currencies, c.a) /\ ~Has(store.currencies, c.a)
        /\ \A a \in DOMAIN store.accounts : store.accounts[a].currencyId # c.a

\* C19: a deleteCurrency call on the base currency of an economy that has no
\* other currency left fails, and the currency stays.
C19_LastBaseCurrencyKept ==
    \A p \in Procs :
        LET c == calls[p]
            s == c.pre
            economyId == s.currencies[c.a].economyId
        IN  ( /\ c.op = "deleteCurrency" /\ c.pc = "done"
              /\ Has(s.currencies, c.a)
              /\ Has(s.economies, economyId)
              /\ s.economies[economyId].baseCurrencyId = c.a
              /\ \A k \in DOMAIN s.currencies :
                    s.currencies[k].economyId = economyId => k = c.a ) =>
            /\ c.res # "ok"
            /\ Has(store.currencies, c.a)

\* An economy has lost its base currency and has no currency left.
C19_EconomyWithoutCurrency ==
    \E e \in DOMAIN store.economies :
        /\ ~Has(store.currencies, store.economies[e].baseCurrencyId)
        /\ \A k \in DOMAIN store.currencies : store.currencies[k].economyId # e

C28_PresetsAllOrFailure ==
    \A p \in Procs :
        LET c == calls[p]
            presets == IF c.op = "addDnD5eCurrencies" THEN DND5E_CURRENCIES
                       ELSE PATHFINDER_CURRENCIES
            created == (DOMAIN store.currencies) \ (DOMAIN c.pre.currencies)
        IN  (c.pc = "done" /\ c.op \in {"addDnD5eCurrencies", "addPathfinderCurrencies"}) =>
               /\ c.res = "ok" =>
                     /\ Cardinality(created) = Len(presets)
                     /\ \A i \in DOMAIN presets :
                           \E k \in created :
                              /\ store.currencies[k].economyId = c.a
                              /\ store.currencies[k].baseValue = presets[i]
               /\ ~Has(c.pre.economies, c.a) => c.res # "ok"

\* addDnD5eCurrencies has returned success for the id of no economy, and the
\* store holds the currencies it held before.
C28_SuccessWithoutCurrencies ==
    \E p \in Procs :
        /\ calls[p].pc = "done" /\ calls[p].op = "addDnD5eCurrencies"
        /\ calls[p].res = "ok"
        /\ ~Has(calls[p].pre.economies, calls[p].a)
        /\ store.currencies = calls[p].pre.currencies

\* C34: in every state every inactive account of the store has balance 0.
C34_InactiveIsEmpty ==
    \A id \in DOMAIN store.accounts :
        ~store.accounts[id].isActive => store.accounts[id].balance = R(0)

\* updateAccount(id, { isActive: false }) has succeeded on an account that
\* holds a balance: the account is inactive with that balance.
C34_InactiveWithBalance ==
    \E p \in Procs :
        LET c == calls[p] IN
        /\ c.op = "updateAccount" /\ c.pc = "done" /\ c.res = "ok"
        /\ c.pre.accounts[c.a].balance # R(0)
        /\ ~store.accounts[c.a].isActive
        /\ store.accounts[c.a].balance = c.pre.accounts[c.a].balance

\* C35: in every state each economy's baseCurrencyId is null or the id of a
\* currency that is in the store and belongs to that economy.
C35_BaseCurrencyExists ==
    \A e \in DOMAIN store.economies :
        LET id == store.economies[e].baseCurrencyId IN
        id = None \/ (Has(store.currencies, id) /\ store.currencies[id].economyId = e)

\* deleteCurrency has succeeded on the base currency of an economy: the
\* economy's baseCurrencyId names a currency that is no longer in the store.
C35_DanglingBaseCurrency ==
    \E p \in Procs :
        LET c == calls[p] IN
        /\ c.op = "deleteCurrency" /\ c.pc = "done" /\ c.res = "ok"
        /\ \E e \in DOMAIN store.economies : store.economies[e].baseCurrencyId = c.a
        /\ ~Has(store.currencies, c.a)

----------------------------------------------------------------------------
(* Properties of closeAccount and createCurrency (one caller, SpecSeq).    *)

\* C17: closeAccount fails and changes nothing unless the account exists and
\* its balance is exactly 0; on success it only sets the account's active
\* flag to false: the account record, its balance and every transaction
\* record stay in the store.
C17_CloseAccountContract ==
    \A p \in Procs :
        LET c == calls[p]
            s == c.pre
        IN  (c.op = "closeAccount" /\ c.pc = "done") =>
            IF Has(s.accounts, c.a) /\ s.accounts[c.a].balance = R(0)
            THEN /\ c.res = "ok"
                 /\ Has(store.accounts, c.a)
                 /\ ~store.accounts[c.a].isActive
                 /\ store.accounts[c.a].balance = R(0)
                 /\ store.transactions = s.transactions
                 /\ store = [s EXCEPT !.accounts[c.a].isActive = FALSE]
            ELSE c.res # "ok" /\ store = s

\* An active account with balance 0 has been closed and is still stored.
C17_Closed ==
    \E p \in Procs :
        LET c == calls[p] IN
        /\ c.op = "closeAccount" /\ c.pc = "done" /\ c.res = "ok"
        /\ c.pre.accounts[c.a].isActive
        /\ Has(store.accounts, c.a) /\ ~store.accounts[c.a].isActive

\* C20: createCurrency with baseValue <= 0 fails and adds no currency, so
\* every currency in the store has baseValue > 0.
C20_BaseValuePositive ==
    /\ \A p \in Procs :
          LET c == calls[p] IN
          (c.op = "createCurrency" /\ c.pc = "done" /\ RLeq(c.amt, R(0))) =>
          c.res # "ok" /\ store.currencies = c.pre.currencies
    /\ \A k \in DOMAIN store.currencies : RLess(R(0), store.currencies[k].baseValue)

\* createCurrency has returned a new currency whose baseValue is negative.
C20_NegativeBaseValueStored ==
    \E p \in Procs :
        LET c == calls[p] IN
        /\ c.op = "createCurrency" /\ c.pc = "done" /\ c.res = "ok"
        /\ RLess(c.amt, R(0))
        /\ Has(store.currencies, c.cur1) /\ ~Has(c.pre.currencies, c.cur1)
        /\ store.currencies[c.cur1].baseValue = c.amt

----------------------------------------------------------------------------
(* Properties of the array-based engine (one caller, SpecLegacy).  A       *)
(* finished call keeps in `loaded` what loadEconomyData gave it and in     *)
(* `pre` what the settings key held when it was entered.                   *)

\* C23 (map-based engine): deleteEconomy(id) on an existing economy returns
\* success and leaves the store without that economy, its currencies, its
\* banks, the accounts at those banks and the records of those accounts, all
\* else as before; on an unknown id it returns "Economy not found" and the
\* store is as before.
C23_DeleteEconomyCascade ==
    \A p \in Procs :
        LET c == calls[p]
            pre == c.pre
            gone == {k \in DOMAIN pre.banks : pre.banks[k].economyId = c.a}
            kept == {k \in DOMAIN pre.accounts : pre.accounts[k].bankId \notin gone}
        IN  (c.pc = "done" /\ c.op = "deleteEconomy") =>
               IF Has(pre.economies, c.a)
               THEN /\ c.res = "ok"
                    /\ DOMAIN store.economies = (DOMAIN pre.economies) \ {c.a}
                    /\ DOMAIN store.currencies =
                          {k \in DOMAIN pre.currencies : pre.currencies[k].economyId # c.a}
                    /\ DOMAIN store.banks = (DOMAIN pre.banks) \ gone
                    /\ DOMAIN store.accounts = kept
                    /\ store.transactions =
                          SelectSeq(pre.transactions, LAMBDA t : t.accountId \in kept)
                    /\ \A k \in DOMAIN store.economies : store.economies[k] = pre.economies[k]
                    /\ \A k \in DOMAIN store.currencies : store.currencies[k] = pre.currencies[k]
                    /\ \A k \in DOMAIN store.banks : store.banks[k] = pre.banks[k]
                    /\ \A k \in DOMAIN store.accounts : store.accounts[k] = pre.accounts[k]
                    /\ store.exchangeRates = pre.exchangeRates
               ELSE c.res = "Economy not found" /\ store = pre

\* C23 (array-based engine): deleteEconomy(id), when its write took place,
\* on an existing economy returns true and leaves the settings key without
\* that economy (its currencies inside it), its banks, the accounts at those
\* banks and the records of those banks, all else as before; on an unknown
\* id it does not return true and the data that loadEconomyData returns is as
\* before.
C23_DeleteEconomyContract ==
    LET l == legacy
        pre == l.loaded
        gone == {pre.banks[i].id : i \in {j \in DOMAIN pre.banks : pre.banks[j].economyId = l.a}}
    IN  (l.pc = "done" /\ l.op = "deleteEconomy") =>
           IF \E i \in DOMAIN pre.economies : pre.economies[i].id = l.a
           THEN l.saved = "saved" =>
                   /\ l.ret.kind = "true"
                   /\ l.stored.economies = SelectSeq(pre.economies, LAMBDA e : e.id # l.a)
                   /\ l.stored.banks = SelectSeq(pre.banks, LAMBDA k : k.economyId # l.a)
                   /\ l.stored.accounts = SelectSeq(pre.accounts, LAMBDA k : k.bankId \notin gone)
                   /\ l.stored.transactions =
                         SelectSeq(pre.transactions, LAMBDA t : t.bankId \notin gone)
           ELSE l.ret.kind # "true" /\ LoadEconomyData(l) = pre

\* deleteEconomy has returned true for an id that names no economy.
C23_UnknownEconomyDeleted ==
    /\ legacy.pc = "done" /\ legacy.op = "deleteEconomy" /\ legacy.ret.kind = "true"
    /\ \A i \in DOMAIN legacy.loaded.economies : legacy.loaded.economies[i].id # legacy.a

\* C24: a createEconomy whose write took place has added to the stored
\* economies, in that one write, the economy it returns, which holds exactly
\* one currency, of baseValue 1, marked base, whose id is the economy's
\* baseCurrencyId; until the write and without it the settings key holds what
\* it held before; and in every state every stored economy holds its base
\* currency.
C24_CreateEconomyAtomic ==
    LET l == legacy
        economy == l.ret.value
    IN  /\ (l.op = "createEconomy" /\ l.pc = "done" /\ l.saved = "saved") =>
              /\ l.ret.kind = "economy"
              /\ l.stored = [l.loaded EXCEPT !.economies = Append(@, economy)]
              /\ Len(economy.currencies) = 1
              /\ economy.currencies[1].baseValue = 1
              /\ economy.currencies[1].isBase
              /\ economy.currencies[1].id = economy.baseCurrencyId
        /\ (l.op = "createEconomy" /\ (l.pc = "saving" \/ l.saved # "saved")) =>
              l.stored = l.pre
        /\ \A i \in DOMAIN l.stored.economies :
              \E j \in DOMAIN l.stored.economies[i].currencies :
                 LET currency == l.stored.economies[i].currencies[j]
                 IN  currency.id = l.stored.economies[i].baseCurrencyId /\ currency.isBase

\* createEconomy has written: the settings key holds one economy more than
\* before the call.
C24_EconomyStored ==
    /\ legacy.op = "createEconomy" /\ legacy.pc = "done" /\ legacy.saved = "saved"
    /\ Len(legacy.stored.economies) = Len(legacy.pre.economies) + 1

\* C25: a createAccount for a (bank, owner) pair that has an account in the
\* loaded data returns that account and writes nothing, the data staying as
\* loaded; and in every state no two accounts of the stored data, nor of the
\* data loadEconomyData returns, share bankId and ownerActorId.
C25_OneAccountPerOwner ==
    LET l == legacy
        NoPairTwice(accounts) ==
            \A i \in DOMAIN accounts : \A j \in DOMAIN accounts :
               (accounts[i].bankId = accounts[j].bankId
                   /\ accounts[i].ownerActorId = accounts[j].ownerActorId) => i = j
    IN  /\ (l.op = "createAccount" /\ l.pc = "done"
               /\ \E i \in DOMAIN l.loaded.accounts :
                     /\ l.loaded.accounts[i].bankId = l.a
                     /\ l.loaded.accounts[i].ownerActorId = l.b) =>
              /\ l.ret.kind = "account"
              /\ \E i \in DOMAIN l.loaded.accounts : l.loaded.accounts[i] = l.ret.value
              /\ l.ret.value.bankId = l.a /\ l.ret.value.ownerActorId = l.b
              /\ l.saved = "none"
              /\ l.stored = l.pre
              /\ LoadEconomyData(l) = l.loaded
        /\ NoPairTwice(l.stored.accounts)
        /\ NoPairTwice(LoadEconomyData(l).accounts)

\* A second createAccount for actor2 at bank 1 has returned the account that
\* the first one stored.
C25_ExistingReturned ==
    /\ legacy.op = "createAccount" /\ legacy.pc = "done" /\ legacy.saved = "none"
    /\ legacy.ret.kind = "account" /\ legacy.b = "actor2"
    /\ Len(legacy.stored.accounts) = Len(LegacyWorld.accounts) + 1

\* C27: when the write a finished call of the array-based engine performed
\* has failed, the call has returned neither true nor a created entity.
C27_WriteFailureReachesCaller ==
    (legacy.pc = "done" /\ legacy.saved = "failed") =>
        legacy.ret.kind \notin {"true", "economy", "account"}

\* createEconomy has returned an economy although settings.set rejected: the
\* settings key holds what it held before.
C27_FailureSwallowed ==
    /\ legacy.pc = "done" /\ legacy.op = "createEconomy" /\ legacy.saved = "failed"
    /\ legacy.ret.kind = "economy"
    /\ legacy.stored = legacy.pre

\* C29: as long as the settings key holds nothing, loadEconomyData returns
\* the empty state, also after calls whose save did not take place.
C29_EmptyUntilPersisted ==
    ~legacy.persisted => LoadEconomyData(legacy) = EmptyData

\* Nothing has been stored, the save of a createEconomy was skipped or
\* failed, and loadEconomyData returns a state with that economy in it.
C29_DefaultDataGrown ==
    /\ ~legacy.persisted
    /\ legacy.pc = "done" /\ legacy.op = "createEconomy"
    /\ legacy.saved \in {"skipped", "failed"}
    /\ LoadEconomyData(legacy).economies = << legacy.ret.value >>

----------------------------------------------------------------------------
(* Properties of transferCurrencyBetweenActors (one caller, SpecActors).   *)
(* A finished transfer keeps in `original` the wallets it found.           *)

\* C26: a finished transferCurrencyBetweenActors that returned true has
\* lowered the sender's amount by `amount` and raised the recipient's by
\* `amount`; one whose sender held less than `amount` returned false; and
\* whenever it returned false both wallets hold their original amounts.
C26_TransferOrNothing ==
    LET a == actors
        lowered == [a.original EXCEPT ![a.from] = @ - a.amount]
    IN  a.pc = "done" =>
           /\ a.res = "true" => a.currency = [lowered EXCEPT ![a.to] = @ + a.amount]
           /\ a.original[a.from] < a.amount => a.res = "false"
           /\ a.res = "false" => a.currency = a.original

\* A transfer has returned false and left the sender without the coins: the
\* recipient's update failed and so did the update that gives them back.
C26_SenderLeftDebited ==
    /\ actors.pc = "done" /\ actors.res = "false" /\ actors.rollback = "failed"
    /\ actors.from # actors.to
    /\ actors.currency[actors.from] = actors.original[actors.from] - actors.amount
    /\ actors.currency[actors.to] = actors.original[actors.to]

----------------------------------------------------------------------------
(* Properties of debounce (SpecDebounce).                                   *)

\* C30: every invocation of fn comes right after a call of the debounced
\* function in the log, `delay` time units after that call, the most recent
\* one, and with its arguments; calls that follow one another without an
\* invocation between them are less than `delay` apart, and the call after an
\* invocation comes `delay` or more after the call before it; the last call,
\* if not yet followed by its invocation, has exactly one timeout scheduled,
\* for `delay` after it and with its arguments; and every scheduled
\* invocation comes to run.
C30_Debounce ==
    /\ [](LET log == timer.log
              delay == timer.delay
          IN  /\ \A i \in DOMAIN log :
                    log[i].kind = "fn" =>
                       /\ i > 1 /\ log[i - 1].kind = "call"
                       /\ log[i].at = log[i - 1].at + delay
                       /\ log[i].args = log[i - 1].args
                       /\ i < Len(log) => log[i + 1].at >= log[i - 1].at + delay
              /\ \A i \in DOMAIN log :
                    (log[i].kind = "call" /\ i < Len(log) /\ log[i + 1].kind = "call") =>
                       log[i + 1].at < log[i].at + delay
              /\ IF log # <<>> /\ log[Len(log)].kind = "call"
                 THEN /\ timer.now <= log[Len(log)].at + delay
                      /\ timer.timeouts = {[id |-> Len(log),
                                            due |-> log[Len(log)].at + delay,
                                            args |-> log[Len(log)].args]}
                 ELSE timer.timeouts = {})
    /\ ((timer.timeouts # {}) ~> (timer.timeouts = {}))

\* A burst of three calls less than `delay` apart, the last with other
\* arguments than the first, has been followed by one invocation of fn.
C30_BurstInvokedOnce ==
    /\ Len(timer.log) = 4
    /\ \A i \in 1..3 : timer.log[i].kind = "call"
    /\ timer.log[1].at < timer.log[2].at /\ timer.log[2].at < timer.log[3].at
    /\ timer.log[1].args # timer.log[3].args
    /\ timer.log[4].kind = "fn"

----------------------------------------------------------------------------
(* Properties of throttle (SpecThrottle).                                   *)

----------------------------------------------------------------------------
(* Properties of the socket transfer (SpecSocket)                           *)

\* C36: with one GM client connected and two different actors named, when
\* handleTransferRequest has answered success = false neither actor's amount
\* has changed, and when it has answered success = true the sender's amount
\* went down by exactly amount and the recipient's up by exactly amount.
C36_AnswerMatchesWallets ==
    (Len(actors.gms) = 1 /\ actors.from # actors.to) =>
        \A m \in actors.answers :
            IF m.success
            THEN /\ actors.currency[actors.from] = actors.original[actors.from] - actors.amount
                 /\ actors.currency[actors.to] = actors.original[actors.to] + actors.amount
            ELSE actors.currency = actors.original

\* One GM client answered failure after the recipient's update was rejected:
\* the sender stays debited.
C36_FailureAfterDebit ==
    /\ Len(actors.gms) = 1
    /\ actors.from \in Actors /\ actors.to \in Actors /\ actors.from # actors.to
    /\ \E m \in actors.answers : ~m.success /\ m.message = "Error"
    /\ actors.currency[actors.from] = actors.original[actors.from] - actors.amount
    /\ actors.currency[actors.to] = actors.original[actors.to]

\* C37: a request sent with requestTransfer moves amount from the sender to
\* the recipient at most once, whatever the number of GM clients: the sender
\* never loses more than amount and the recipient never gains more.
C37_AppliedAtMostOnce ==
    (actors.pc = "requested" /\ actors.from \in Actors /\ actors.to \in Actors) =>
        /\ actors.currency[actors.from] >= actors.original[actors.from] - actors.amount
        /\ actors.currency[actors.to] <= actors.original[actors.to] + actors.amount

\* Two GM clients both answered success and the sender lost twice the amount.
C37_AppliedTwice ==
    /\ actors.pc = "requested" /\ actors.from \in Actors /\ actors.to \in Actors
    /\ actors.from # actors.to
    /\ \A g \in {1, 2} : [gm |-> g, success |-> TRUE, message |-> "Transferred"] \in actors.answers
    /\ actors.currency[actors.from] = actors.original[actors.from] - 2 * actors.amount
    /\ actors.currency[actors.to] = actors.original[actors.to] + 2 * actors.amount

----------------------------------------------------------------------------
(* Properties of the transaction queries (SpecQuery)                        *)

\* C39: getTransactions and getAllTransactions leave the store as it was: the
\* stored transaction list has the same content in the same order after the
\* call as before it.
C39_QueriesLeaveStore ==
    \A p \in Procs :
        LET c == calls[p]
        IN  (c.pc = "done" /\ c.op \in {"getTransactions", "getAllTransactions"}) =>
                store = c.pre

\* getAllTransactions has returned and the stored list, oldest first before
\* the call, is newest first.
C39_StoredListReordered ==
    \E p \in Procs :
        LET c == calls[p]
            n == Len(store.transactions)
        IN  /\ c.pc = "done" /\ c.op = "getAllTransactions"
            /\ n >= 2 /\ Len(c.pre.transactions) = n
            /\ c.pre.transactions[1].createdAt < c.pre.transactions[n].createdAt
            /\ store.transactions[1] = c.pre.transactions[n]
            /\ store.transactions[n] = c.pre.transactions[1]

====
